---- MODULE Spec2Model ----
(***************************************************************************)
(* Verification model of the mail_assistant email processing engine.       *)
(*                                                                         *)
(* The specifications of this module share its variables; each moves one  *)
(* group of them and leaves the others at fixed values:                    *)
(*   Spec          the prompt priority queue driven by processors and the  *)
(*                 worker pool (prompt/priority_queue.rs, email/tasks.rs)  *)
(*   SpecMap, SpecMapFair, SpecRegistry, SpecWaiting                       *)
(*                 the active processor registry                           *)
(*                 (email/active_email_processors.rs, processor/mod.rs)    *)
(*   SpecProc      one processor serving concurrent process_email calls    *)
(*                 (email_processor.rs, model/user_token_usage.rs)         *)
(*   SpecRun, SpecFetch   the run loop of a processor and its workers      *)
(*   SpecLimit, SpecLimitFair   rate_limiters.rs                           *)
(*   SpecPrompt, SpecGate, SpecId, SpecLabel, SpecMailbox                  *)
(*                 prompting, the confidence gate, message ids, labels     *)
(*   SpecPool      the supervised task pool of main                        *)
(*   SpecToken     access tokens (model/user_derivatives.rs)               *)
(*   SpecLock      the locks of the prompt priority queue                  *)
(*   SpecCleanup   run_auto_email_cleanup (email/tasks.rs)                 *)
(***************************************************************************)
EXTENDS Integers, FiniteSets, Sequences, Bags, TLC

\* ------------------------------------------------------------------------
\* Bounds
\* ------------------------------------------------------------------------
NumUsers == 2
NumMsgIds == 2
NumWorkers == 2
MaxHeap == NumMsgIds + 1

\* bounds of the processor registry model; NumTaskUsers of the NumMapUsers
\* users call add_to_processing in SpecMap and SpecRegistry, all of them in
\* SpecWaiting
NumMapUsers == 4
NumTaskUsers == 2
NumProcs == 2
MaxSize == 1
MaxQueued == 2
MapQuota == 2

\* bounds of the rate limiter model
NumCallers == 2
MaxTime == 4
MaxTimers == 2

\* bounds of the auto cleanup model: users with settings, settings of one
\* user, candidate emails of one setting, emails with the keep label
NumCleanupUsers == 2

MaxSettings == 1

NumCleanupIds == 3

NumKeepIds == 1

\* bounds of the lock model: the threads that call the queue's methods
NumLockers == 2

\* bounds of the fetch model: the times one message is sent to the classifier
MaxSent == 2

\* bounds of the id conversion model: the integer type has IdBits bits in
\* place of the 128 of u128, an id has at most MaxIdLen characters
IdBits == 7

MaxIdLen == 2

\* bounds of the confidence gate model: confidences and thresholds are the
\* values k / MaxConfidence, k in 0..MaxConfidence
MaxConfidence == 2

\* bounds of the mailbox configuration model
MaxConfigureCalls == 2

\* bounds of the labelling model
MaxLabelUpdates == 2

\* bounds of the token refresh model
NumTasks == 2
MaxIssued == 2
MaxUtc == 2

\* bounds of the classification request model
MaxPrompts == 2

\* bounds of the per-user processor model
MaxCalls == 2
MaxTokenUsage == 1

Emails == 1..NumUsers
MsgIds == 1..NumMsgIds
Workers == 1..NumWorkers

\* ------------------------------------------------------------------------
\* prompt/priority_queue.rs : types
\* ------------------------------------------------------------------------
Priority == {"High", "Low"}

PromptQueueEmailEntry == [user_email : Emails, email_id : MsgIds, priority : Priority]

NoEntry == [user_email |-> 0, email_id |-> 0, priority |-> "None"]

QueueCount == [high_priority : Nat, low_priority : Nat]

NoCount == [high_priority |-> -1, low_priority |-> -1]

NoCall == [email_id |-> 0, added |-> FALSE]

VARIABLES
  queue,                          \* BinaryHeap<PromptQueueEmailEntry>, as a bag
  num_in_queue_by_email_address,  \* HashMap<String, QueueCount>
  in_processing_set,              \* HashSet<u128>
  push_ret,                       \* return value of the last push, with the
                                  \* email_id of a push that was refused
  task_pc,                        \* position of each email_processing_task
  task_entry,                     \* the entry each task holds
  processor_map                   \* emails that have a processor in the map

queueVars == <<queue, num_in_queue_by_email_address, in_processing_set, push_ret,
               task_pc, task_entry, processor_map>>

VARIABLES
  email_to_active_proc,           \* HashMap<String, Arc<EmailProcessor>>; 0: no entry
  waiting_queue,                  \* IndexSet<String>
  proc,                           \* the EmailProcessor instances created so far
  next_proc,                      \* number of instances created so far, plus one
  usage_today                     \* UserTokenUsageStats.tokens_consumed per user

mapVars == <<email_to_active_proc, waiting_queue, proc, next_proc, usage_today>>

VARIABLES
  token_count,                    \* EmailProcessor::token_count
  cancelled,                      \* EmailProcessor::cancelled
  failed,                         \* EmailProcessor::failed
  processed_email_count,          \* EmailProcessor::processed_email_count
  failed_email_count,             \* EmailProcessor::failed_email_count
  usage_row,                      \* user_token_usage_stat row of (user, today)
  processed_email,                \* per id: its number of processed_email rows
  call,                           \* per worker: its process_email call
  call_ret,                       \* how the last process_email call was dropped
                                  \* or came out of run_email_processes
  calls_made,                     \* process_email calls started so far
  start_usage,                    \* tokens_consumed when the processor was built
  tokens_ok,                      \* token usage of the calls that returned Ok
  tokens_charged                  \* token usage returned by all classifier calls

procVars == <<token_count, cancelled, failed, processed_email_count,
              failed_email_count, usage_row, processed_email, call, call_ret,
              calls_made, start_usage, tokens_ok, tokens_charged>>

VARIABLES
  run_pc,                         \* where run() of the processor stands
  run_ids,                        \* new_email_ids still to be pushed
  num_added                       \* num_added of the queue_*_emails call

runVars == <<run_pc, run_ids, num_added>>

VARIABLES
  backoff,                        \* RateLimiters.backoff
  balance,                        \* tokens in the leaky bucket RateLimiters.prompt
  acquire_pc,                     \* where each acquire_one call stands
  wake_at,                        \* when the sleep of each acquire_one call ends
  timers,                         \* bag of the deadlines of the tasks spawned by trigger_backoff
  now                             \* the clock, in units of tokio::time

limVars == <<backoff, balance, acquire_pc, wake_at, timers, now>>

VARIABLES
  prompt_ret,                     \* what the last send_category_prompt call got and returned
  prompt_calls                    \* number of send_category_prompt calls made

promptVars == <<prompt_ret, prompt_calls>>

VARIABLES
  join_set_len,                   \* JoinSet::len() of the worker pool
  supervisor_pc                   \* where the supervisor of the pool stands

poolVars == <<join_set_len, supervisor_pc>>

VARIABLES
  user_account_access,            \* the row of the user: access_token, refresh_token, expires_at
  token_call,                     \* each task's call of the token refresh helper
  issued,                         \* number of access tokens the OAuth provider has issued
  utc_now                         \* chrono::Utc::now()

tokenVars == <<user_account_access, token_call, issued, utc_now>>

VARIABLES
  message_labels,                 \* labelIds of the message at the provider
  label_update,                   \* addLabelIds / removeLabelIds of the last label_email call
  label_category,                 \* the category of the last label_email call
  label_updates                   \* number of label_email calls made

labelVars == <<message_labels, label_update, label_category, label_updates>>

VARIABLES
  mailbox_labels,                 \* names of the labels of the user's mailbox
  configure_ret,                  \* what the last configure_labels_if_needed call returned
  configure_calls,                \* number of configure_labels_if_needed calls made
  all_created                     \* every create_label of the last call succeeded

mailboxVars == <<mailbox_labels, configure_ret, configure_calls, all_created>>

VARIABLES
  prompt_response,                \* CategoryPromptResponse and the message's from
  email_confidence_threshold,     \* cfg.model.email_confidence_threshold
  category_content,               \* parse_and_prompt_email's category_content
  email_category                  \* content of the category the email is given

gateVars == <<prompt_response, email_confidence_threshold, category_content, email_category>>

VARIABLES
  id_input,                       \* the argument of a conversion: an integer or an id
  id_output                       \* the result of converting it and converting back

idVars == <<id_input, id_output>>

VARIABLES
  already_processed_ids,          \* fetch_email_ids: the processed ids it has read
  prompt_sent                     \* per id: times the message was sent to the classifier

fetchVars == <<already_processed_ids, prompt_sent>>

VARIABLES
  queue_mutex,                    \* holder of the Mutex of queue; 0: free
  counter_rwlock,                 \* writer and readers of the RwLock of the counters
  set_mutex,                      \* holder of the Mutex of in_processing_set; 0: free
  lock_call                       \* per thread: the queue method it is in

lockVars == <<queue_mutex, counter_rwlock, set_mutex, lock_call>>

VARIABLES
  cleanup_pc,                     \* where run_auto_email_cleanup stands
  cleanup_todo,                   \* users the for loop has still to visit
  keep_ids,                       \* ids listed with the keep label
  settings_todo,                  \* how many of the user's settings are still to run
  cleanup_setting,                \* cleanup_action of the setting being run
  emails_to_cleanup,              \* candidates of the setting being run
  cleanup_queue,                  \* the shared Vec of the 5 tasks
  thread_pc,                      \* position of each of the 5 tasks
  thread_email,                   \* the email each task has popped; 0: none
  cleanup_calls,                  \* per id: trash_email and archive_email calls of the setting
  failed_calls                    \* whether a call of the setting returned an error

cleanupVars == <<cleanup_pc, cleanup_todo, keep_ids, settings_todo, cleanup_setting, emails_to_cleanup, cleanup_queue, thread_pc, thread_email, cleanup_calls, failed_calls>>

\* the variables of the parts below the rate limiter
laterVars ==
  <<promptVars, poolVars, tokenVars, labelVars, mailboxVars, gateVars, idVars, fetchVars, lockVars, cleanupVars>>

\* what the actions of one of these parts leave alone
promptOthers ==
  <<poolVars, tokenVars, labelVars, mailboxVars, gateVars, idVars, fetchVars, lockVars, cleanupVars>>

poolOthers ==
  <<promptVars, tokenVars, labelVars, mailboxVars, gateVars, idVars, fetchVars, lockVars, cleanupVars>>

tokenOthers ==
  <<promptVars, poolVars, labelVars, mailboxVars, gateVars, idVars, fetchVars, lockVars, cleanupVars>>

labelOthers ==
  <<promptVars, poolVars, tokenVars, mailboxVars, gateVars, idVars, fetchVars, lockVars, cleanupVars>>

mailboxOthers ==
  <<promptVars, poolVars, tokenVars, labelVars, gateVars, idVars, fetchVars, lockVars, cleanupVars>>

gateOthers ==
  <<promptVars, poolVars, tokenVars, labelVars, mailboxVars, idVars, fetchVars, lockVars, cleanupVars>>

idOthers ==
  <<promptVars, poolVars, tokenVars, labelVars, mailboxVars, gateVars, fetchVars, lockVars, cleanupVars>>

fetchOthers ==
  <<promptVars, poolVars, tokenVars, labelVars, mailboxVars, gateVars, idVars, lockVars, cleanupVars>>

lockOthers ==
  <<promptVars, poolVars, tokenVars, labelVars, mailboxVars, gateVars, idVars, fetchVars, cleanupVars>>

cleanupOthers ==
  <<promptVars, poolVars, tokenVars, labelVars, mailboxVars, gateVars, idVars, fetchVars, lockVars>>

vars == <<queueVars, mapVars, procVars, runVars, limVars, laterVars>>

\* ------------------------------------------------------------------------
\* impl Ord for PromptQueueEmailEntry
\* ------------------------------------------------------------------------
cmp_reversed(a, b) ==
  IF a.priority = "High" /\ b.priority = "Low" THEN "Less"
  ELSE IF a.priority = "Low" /\ b.priority = "High" THEN "Greater"
  ELSE "Equal"

cmp(a, b) ==
  IF a.priority = "High" /\ b.priority = "Low" THEN "Greater"
  ELSE IF a.priority = "Low" /\ b.priority = "High" THEN "Less"
  ELSE "Equal"

\* BinaryHeap::pop hands out a greatest element of the heap under cmp;
\* which one among equal elements is not determined.
IsGreatest(e, heap) ==
  /\ BagIn(e, heap)
  /\ \A o \in BagToSet(heap) : cmp(e, o) # "Less"

\* ------------------------------------------------------------------------
\* PromptPriorityQueue
\* ------------------------------------------------------------------------
num_in_queue(email) ==
  LET c == num_in_queue_by_email_address[email] IN
  IF c = NoCount THEN 0 ELSE c.high_priority + c.low_priority

num_high_priority_in_queue(email) ==
  LET c == num_in_queue_by_email_address[email] IN
  IF c = NoCount THEN 0 ELSE c.high_priority

num_low_priority_in_queue(email) ==
  LET c == num_in_queue_by_email_address[email] IN
  IF c = NoCount THEN 0 ELSE c.low_priority

CountAfterPush_high(c, priority) ==
  IF c = NoCount
    THEN [high_priority |-> 1, low_priority |-> 0]
    ELSE [c EXCEPT !.high_priority = @ + 1]

CountAfterPush(c, priority) ==
  IF c = NoCount
    THEN IF priority = "High"
           THEN [high_priority |-> 1, low_priority |-> 0]
           ELSE [high_priority |-> 0, low_priority |-> 1]
    ELSE IF priority = "High"
           THEN [c EXCEPT !.high_priority = @ + 1]
           ELSE [c EXCEPT !.low_priority = @ + 1]

push_unchecked(user_email, email_id, priority) ==
  /\ in_processing_set' = in_processing_set \cup {email_id}
  /\ queue' = queue (+) SetToBag({[user_email |-> user_email, email_id |-> email_id,
                                   priority |-> priority]})
  /\ num_in_queue_by_email_address' =
       [num_in_queue_by_email_address EXCEPT
          ![user_email] = CountAfterPush(@, priority)]
  /\ push_ret' = [email_id |-> 0, added |-> TRUE]

push(user_email, email_id, priority) ==
  IF email_id \in in_processing_set
    THEN /\ push_ret' = [email_id |-> email_id, added |-> FALSE]
         /\ UNCHANGED <<queue, num_in_queue_by_email_address, in_processing_set>>
    ELSE /\ in_processing_set' = in_processing_set \cup {email_id}
         /\ queue' = queue (+) SetToBag({[user_email |-> user_email,
                                          email_id |-> email_id,
                                          priority |-> priority]})
         /\ num_in_queue_by_email_address' =
              [num_in_queue_by_email_address EXCEPT
                 ![user_email] = CountAfterPush(@, priority)]
         /\ push_ret' = [email_id |-> 0, added |-> TRUE]

\* usize subtraction of a release build: 0 - 1 wraps to usize::MAX, for which
\* the largest integer of the checker stands
wrapping_dec(x) == IF x = 0 THEN 2147483647 ELSE x - 1

CountAfterPop(c, priority) ==
  IF c = NoCount THEN NoCount
  ELSE IF c.high_priority = 0 /\ c.low_priority = 0 THEN NoCount
  ELSE IF priority = "High"
    THEN [c EXCEPT !.high_priority = wrapping_dec(@)]
    ELSE [c EXCEPT !.low_priority = wrapping_dec(@)]

pop_and_release(entry) ==
  /\ IsGreatest(entry, queue)
  /\ queue' = queue (-) SetToBag({entry})
  /\ num_in_queue_by_email_address' =
       [num_in_queue_by_email_address EXCEPT
          ![entry.user_email] = CountAfterPop(@, entry.priority)]
  /\ in_processing_set' = in_processing_set \ {entry.email_id}

\* pop returning Some(entry)
pop(entry) ==
  /\ IsGreatest(entry, queue)
  /\ queue' = queue (-) SetToBag({entry})
  /\ num_in_queue_by_email_address' =
       [num_in_queue_by_email_address EXCEPT
          ![entry.user_email] = CountAfterPop(@, entry.priority)]
  /\ UNCHANGED in_processing_set

remove_all_from_processing(email_id) ==
  in_processing_set' = {}

remove_from_processing(email_id) ==
  in_processing_set' = in_processing_set \ {email_id}

\* ------------------------------------------------------------------------
\* The processors feeding the queue, and the processor map the workers read
\* ------------------------------------------------------------------------
\* ActiveEmailProcessorMap::insert for an email without a processor: the
\* processor is created and stored, and its run() task is spawned
insert(email) ==
  /\ email \notin processor_map
  /\ processor_map' = processor_map \cup {email}
  /\ UNCHANGED <<queue, num_in_queue_by_email_address, in_processing_set, push_ret,
                 task_pc, task_entry, mapVars, procVars, runVars, limVars, laterVars>>

\* queue_recent_emails (High) and queue_older_emails (Low): one push of a
\* run() tick of the processor of this email
queue_emails(email, email_id, priority) ==
  /\ email \in processor_map
  /\ BagCardinality(queue) < MaxHeap
  /\ push(email, email_id, priority)
  /\ UNCHANGED <<task_pc, task_entry, processor_map, mapVars, procVars, runVars, limVars, laterVars>>

\* run_processor_cleanup_loop, one tick: the processors that have stopped
\* queueing (has_stopped_queueing, any outcome) and have nothing in the queue
\* are removed from the map
run_processor_cleanup_loop ==
  \E stopped \in SUBSET processor_map :
    LET processors_for_cleanup == {e \in stopped : num_in_queue(e) = 0}
    IN /\ processors_for_cleanup # {}
       /\ processor_map' = processor_map \ processors_for_cleanup
       /\ UNCHANGED <<queue, num_in_queue_by_email_address, in_processing_set,
                      push_ret, task_pc, task_entry, mapVars, procVars, runVars, limVars, laterVars>>

\* ------------------------------------------------------------------------
\* email_processing_task: one worker of the pool
\* ------------------------------------------------------------------------
\* let entry = prompt_priority_queue.pop(); a None is followed by a sleep and
\* leaves every variable as it is
task_pop(w) ==
  /\ task_pc[w] = "pop"
  /\ \E entry \in BagToSet(queue) :
       /\ pop(entry)
       /\ task_entry' = [task_entry EXCEPT ![w] = entry]
  /\ task_pc' = [task_pc EXCEPT ![w] = "get"]
  /\ UNCHANGED <<push_ret, processor_map, mapVars, procVars, runVars, limVars, laterVars>>

\* if let Some(processor) = email_processor_map.get(email); once process_email
\* has been called with email_id and entry.priority, email_id is all of the
\* entry that the task still reads
task_get(w) ==
  /\ task_pc[w] = "get"
  /\ IF task_entry[w].user_email \in processor_map
       THEN /\ task_pc' = [task_pc EXCEPT ![w] = "process_email"]
            /\ task_entry' = [task_entry EXCEPT
                                ![w] = [NoEntry EXCEPT !.email_id = task_entry[w].email_id]]
       ELSE /\ task_pc' = [task_pc EXCEPT ![w] = "pop"]
            /\ task_entry' = [task_entry EXCEPT ![w] = NoEntry]
  /\ UNCHANGED <<queue, num_in_queue_by_email_address, in_processing_set, push_ret,
                 processor_map, mapVars, procVars, runVars, limVars, laterVars>>

\* processor.process_email(..).await returns; remove_from_processing(email_id)
task_processed(w) ==
  /\ task_pc[w] = "process_email"
  /\ remove_from_processing(task_entry[w].email_id)
  /\ task_pc' = [task_pc EXCEPT ![w] = "pop"]
  /\ task_entry' = [task_entry EXCEPT ![w] = NoEntry]
  /\ UNCHANGED <<queue, num_in_queue_by_email_address, push_ret,
                 processor_map, mapVars, procVars, runVars, limVars, laterVars>>

\* ------------------------------------------------------------------------
\* email/active_email_processors.rs, email/processor/mod.rs,
\* email/processor/queue.rs : the registry of active processors
\* ------------------------------------------------------------------------
MapUsers == 1..NumMapUsers
ProcIds == 1..NumProcs

\* process_emails_in_queue spawns this many tasks that pull from email_queue
NumThreads == 3

NoProc == [email |-> 0, cancelled |-> FALSE, token_count |-> 0, remaining_quota |-> 0,
           email_queue |-> 0, task |-> "none", idle |-> 0, busy |-> 0,
           fetching |-> FALSE]

\* EmailProcessor::new: remaining_quota is the daily quota less today's usage
NewProc(email, usage) ==
  [email |-> email, cancelled |-> FALSE, token_count |-> 0,
   remaining_quota |-> MapQuota - usage, email_queue |-> 0,
   task |-> "queue_new_emails", idle |-> 0, busy |-> 0, fetching |-> FALSE]

proc_is_cancelled(p) == p.cancelled

proc_is_quota_reached(p) == p.token_count >= p.remaining_quota

check_is_processing(p) ==
  ~proc_is_cancelled(p) /\ ~proc_is_quota_reached(p) /\ ~(p.email_queue = 0)

\* the registry with the processors it refers to, as one value
MapState == [m |-> email_to_active_proc, wq |-> waiting_queue, pr |-> proc,
             np |-> next_proc]

\* IndexSet::insert: appended unless present
IndexSetInsert(q, x) == IF \E i \in 1..Len(q) : q[i] = x THEN q ELSE Append(q, x)

\* IndexSet::swap_remove_index(0): the last element takes the place of the first
SwapRemoveFirst(q) ==
  IF Len(q) <= 1 THEN <<>> ELSE <<q[Len(q)]>> \o SubSeq(q, 2, Len(q) - 1)

MapLen(m) == Cardinality({e \in MapUsers : m[e] # 0})

\* insert_processor that takes the user in while the map holds max_size
\* processors
insert_processor_over(st, email_address, failing) ==
  IF st.m[email_address] # 0
    THEN [st EXCEPT !.pr[st.m[email_address]].fetching = TRUE]
  ELSE IF MapLen(st.m) > MaxSize
    THEN [st EXCEPT !.wq = IndexSetInsert(@, email_address)]
  ELSE IF email_address \in failing \/ st.np > NumProcs
    THEN st
  ELSE [st EXCEPT !.pr[st.np] = NewProc(email_address, usage_today[email_address]),
                  !.m[email_address] = st.np,
                  !.np = @ + 1]

\* insert_processor; failing holds the emails for which from_email_address
\* returns an error during this call (no instance is left once NumProcs
\* processors were created)
insert_processor(st, email_address, failing) ==
  IF st.m[email_address] # 0
    THEN [st EXCEPT !.pr[st.m[email_address]].fetching = TRUE]
  ELSE IF MapLen(st.m) >= MaxSize
    THEN [st EXCEPT !.wq = IndexSetInsert(@, email_address)]
  ELSE IF email_address \in failing \/ st.np > NumProcs
    THEN st
  ELSE [st EXCEPT !.pr[st.np] = NewProc(email_address, usage_today[email_address]),
                  !.m[email_address] = st.np,
                  !.np = @ + 1]

\* remove_processor
remove_processor(st, email_address, failing) ==
  IF st.m[email_address] = 0 THEN st
  ELSE LET removed == [st EXCEPT !.m[email_address] = 0] IN
       IF Len(removed.wq) = 0 THEN removed
       ELSE insert_processor([removed EXCEPT !.wq = SwapRemoveFirst(@)],
                             removed.wq[1], failing)

RECURSIVE RemoveAll(_, _, _)
RemoveAll(st, to_remove, failing) ==
  IF Len(to_remove) = 0 THEN st
  ELSE RemoveAll(remove_processor(st, Head(to_remove), failing),
                 Tail(to_remove), failing)

Orderings(S) ==
  {q \in [1..Cardinality(S) -> S] : \A i, j \in 1..Cardinality(S) : q[i] = q[j] => i = j}

SetMapState(st) ==
  /\ email_to_active_proc' = st.m
  /\ waiting_queue' = st.wq
  /\ proc' = st.pr
  /\ next_proc' = st.np

\* ActiveProcessingQueue::add_to_processing
add_to_processing(email_address) ==
  /\ \E failing \in SUBSET {email_address} :
       SetMapState(insert_processor(MapState, email_address, failing))
  /\ UNCHANGED <<usage_today, queueVars, procVars, runVars, limVars, laterVars>>

\* ActiveProcessingQueue::cleanup_finished_processors
cleanup_finished_processors ==
  LET to_remove == {e \in MapUsers :
                      /\ email_to_active_proc[e] # 0
                      /\ ~check_is_processing(proc[email_to_active_proc[e]])}
  IN /\ to_remove # {}
     /\ \E order \in Orderings(to_remove),
           failing \in SUBSET {waiting_queue[i] : i \in 1..Len(waiting_queue)} :
          SetMapState(RemoveAll(MapState, order, failing))
     /\ UNCHANGED <<usage_today, queueVars, procVars, runVars, limVars, laterVars>>

\* the task spawned with a new processor: queue_new_emails has returned (with
\* the ids it added, none on an error) and process_emails_in_queue starts:
\* it returns at once when the quota is reached or the label or inbox
\* configuration fails, else it spawns its NumThreads tasks
spawned_task_start(id) ==
  /\ proc[id].task = "queue_new_emails"
  /\ \E added \in 0..(MaxQueued - proc[id].email_queue), configured \in BOOLEAN :
       proc' = [proc EXCEPT
                  ![id].email_queue = @ + added,
                  ![id].task = IF proc_is_quota_reached(proc[id]) \/ ~configured
                                 THEN "done" ELSE "process_emails_in_queue",
                  ![id].idle = IF proc_is_quota_reached(proc[id]) \/ ~configured
                                 THEN 0 ELSE NumThreads]
  /\ UNCHANGED <<email_to_active_proc, waiting_queue, next_proc, usage_today, queueVars, procVars, runVars, limVars, laterVars>>

\* a queue_new_emails task spawned by insert_processor for an existing
\* processor adds the ids it fetched; more such tasks may be outstanding
spawned_queue_new_emails(id) ==
  /\ proc[id].fetching
  /\ \E added \in 0..(MaxQueued - proc[id].email_queue), more \in BOOLEAN :
       proc' = [proc EXCEPT ![id].email_queue = @ + added, ![id].fetching = more]
  /\ UNCHANGED <<email_to_active_proc, waiting_queue, next_proc, usage_today, queueVars, procVars, runVars, limVars, laterVars>>

\* one of the tasks of process_emails_in_queue: while let Some(id) = get_next()
thread_get_next(id) ==
  /\ proc[id].task = "process_emails_in_queue"
  /\ proc[id].idle > 0
  /\ IF proc[id].email_queue = 0
       THEN proc' = [proc EXCEPT ![id].idle = @ - 1]
       ELSE IF proc_is_cancelled(proc[id]) \/ proc_is_quota_reached(proc[id])
         THEN proc' = [proc EXCEPT ![id].email_queue = @ - 1, ![id].idle = @ - 1]
         ELSE proc' = [proc EXCEPT ![id].email_queue = @ - 1, ![id].idle = @ - 1,
                                   ![id].busy = @ + 1]
  /\ UNCHANGED <<email_to_active_proc, waiting_queue, next_proc, usage_today, queueVars, procVars, runVars, limVars, laterVars>>

\* the message is fetched and process_email returns Ok(1 token) or an error
thread_process_email(id) ==
  /\ proc[id].busy > 0
  /\ \E ok \in BOOLEAN :
       proc' = [proc EXCEPT ![id].busy = @ - 1, ![id].idle = @ + 1,
                            ![id].token_count = IF ok THEN @ + 1 ELSE @]
  /\ UNCHANGED <<email_to_active_proc, waiting_queue, next_proc, usage_today, queueVars, procVars, runVars, limVars, laterVars>>

\* join_all returned: add_tally_to_user_daily_quota(current_token_usage())
\* writes the tally and stores the row's value into token_count
spawned_task_finish(id) ==
  /\ proc[id].task = "process_emails_in_queue"
  /\ proc[id].idle = 0 /\ proc[id].busy = 0
  /\ usage_today' = [usage_today EXCEPT ![proc[id].email] = @ + proc[id].token_count]
  /\ proc' = [proc EXCEPT ![id].task = "done",
                          ![id].token_count = usage_today'[proc[id].email]]
  /\ UNCHANGED <<email_to_active_proc, waiting_queue, next_proc, queueVars, procVars, runVars, limVars, laterVars>>

\* ------------------------------------------------------------------------
\* email/processor/email_processor.rs, model/user_token_usage.rs :
\* one EmailProcessor serving the process_email calls of the workers
\* ------------------------------------------------------------------------
\* cfg.api.token_limits.daily_user_quota
DAILY_QUOTA == 100002

\* quota kept back for high priority emails
LOW_PRIORITY_RESERVE == 100000

TokenUsages == 0..MaxTokenUsage

NoRow == -1

\* a worker outside process_email
NoCallInProgress == [pc |-> "idle", id |-> 0, priority |-> "None", token_usage |-> 0,
                     updated_tally |-> 0]

\* UserTokenUsageStatsCtrl::get_usage_today
get_usage_today == IF usage_row = NoRow THEN 0 ELSE usage_row

is_cancelled == cancelled

is_failed == failed

current_token_usage == token_count

is_quota_reached_strict == token_count > DAILY_QUOTA

is_quota_reached == token_count >= DAILY_QUOTA

\* process_email returns before or straight after run_email_processes;
\* call_ret tells how
Return(w, ret) ==
  /\ call' = [call EXCEPT ![w] = NoCallInProgress]
  /\ call_ret' = ret

\* process_email returns from add_tally_to_user_daily_quota
ReturnFromTally(w) ==
  /\ call' = [call EXCEPT ![w] = NoCallInProgress]
  /\ UNCHANGED call_ret

process_email_unreserved(w, id, priority) ==
  /\ call[w].pc = "idle"
  /\ calls_made < MaxCalls
  /\ \A o \in Workers : call[o].id # id
  /\ calls_made' = calls_made + 1
  /\ IF is_cancelled \/ is_quota_reached \/ is_failed
       THEN Return(w, "dropped")
     ELSE /\ call' = [call EXCEPT ![w] = [pc |-> "run_email_processes", id |-> id,
                                          priority |-> priority, token_usage |-> 0,
                                          updated_tally |-> 0]]
          /\ UNCHANGED call_ret
  /\ UNCHANGED <<token_count, cancelled, failed, processed_email_count,
                 failed_email_count, usage_row, processed_email, start_usage,
                 tokens_ok, tokens_charged, queueVars, mapVars, runVars, limVars, laterVars>>

\* process_email, up to the call of run_email_processes; the in-flight set of
\* the queue keeps two calls for one id apart
process_email(w, id, priority) ==
  /\ call[w].pc = "idle"
  /\ calls_made < MaxCalls
  /\ \A o \in Workers : call[o].id # id
  /\ calls_made' = calls_made + 1
  /\ IF is_cancelled \/ is_quota_reached \/ is_failed
       THEN Return(w, "dropped")
     ELSE IF DAILY_QUOTA - current_token_usage < LOW_PRIORITY_RESERVE /\ priority = "Low"
       THEN Return(w, "reserved")
     ELSE /\ call' = [call EXCEPT ![w] = [pc |-> "run_email_processes", id |-> id,
                                          priority |-> priority, token_usage |-> 0,
                                          updated_tally |-> 0]]
          /\ UNCHANGED call_ret
  /\ UNCHANGED <<token_count, cancelled, failed, processed_email_count,
                 failed_email_count, usage_row, processed_email, start_usage,
                 tokens_ok, tokens_charged, queueVars, mapVars, runVars, limVars, laterVars>>

\* run_email_processes: get_sanitized_message and acquire_one; an error of
\* the fetch ends process_email in its Err arm. The priority was read by the
\* guards of process_email only.
run_email_processes(w) ==
  /\ call[w].pc = "run_email_processes"
  /\ \/ /\ failed_email_count' = failed_email_count + 1
        /\ Return(w, "err")
     \/ /\ call' = [call EXCEPT ![w].pc = "parse_and_prompt_email",
                                  ![w].priority = "None"]
        /\ UNCHANGED <<failed_email_count, call_ret>>
  /\ UNCHANGED <<token_count, cancelled, failed, processed_email_count, usage_row,
                 processed_email, calls_made, start_usage, tokens_ok,
                 tokens_charged, queueVars, mapVars, runVars, limVars, laterVars>>

\* the Ok arm of process_email: both counters are raised, and a non-zero
\* token usage goes on to add_tally_to_user_daily_quota
ProcessedOk(w, token_usage, ret) ==
  /\ processed_email_count' = processed_email_count + 1
  /\ token_count' = token_count + token_usage
  /\ tokens_ok' = tokens_ok + token_usage
  /\ call_ret' = ret
  /\ call' = [call EXCEPT ![w] = IF token_usage = 0
                                   THEN NoCallInProgress
                                   ELSE [@ EXCEPT !.pc = "add_to_daily_quota",
                                                  !.token_usage = token_usage]]
  /\ UNCHANGED <<failed, failed_email_count>>

ProcessedErr_uncounted(w, fail, ret) ==
  /\ failed' = (failed \/ fail)
  /\ Return(w, ret)
  /\ UNCHANGED <<failed_email_count, processed_email_count, token_count, tokens_ok,
                 processed_email>>

\* the Err arm of process_email; fail tells whether self.fail() was called
ProcessedErr(w, fail, ret) ==
  /\ failed_email_count' = failed_email_count + 1
  /\ failed' = (failed \/ fail)
  /\ Return(w, ret)
  /\ UNCHANGED <<processed_email_count, token_count, tokens_ok, processed_email>>

insert_processed_email_unchecked(id) ==
  processed_email' = [processed_email EXCEPT ![id] = @ + 1]

\* ProcessedEmailCtrl::insert: id is the primary key of processed_email, a
\* second row for it is refused with a unique violation
insert_processed_email(id) ==
  processed_email' = [processed_email EXCEPT ![id] = IF @ = 0 THEN 1 ELSE @]

\* parse_and_prompt_email: send_category_prompt and the token usage it
\* returns, the training insert, label_email (with
\* configure_labels_if_needed when it fails) and the processed_email insert
parse_and_prompt_email(w) ==
  /\ call[w].pc = "parse_and_prompt_email"
  /\ \/ /\ ProcessedErr(w, FALSE, "err")            \* send_category_prompt failed
        /\ UNCHANGED tokens_charged
     \/ \E token_usage \in TokenUsages :
          /\ tokens_charged' = tokens_charged + token_usage
          /\ \/ ProcessedErr(w, FALSE, "training_err")  \* training insert failed
             \/ ProcessedErr(w, FALSE, "label_err")     \* label_email failed,
                                                        \* the labels were repaired
             \/ ProcessedErr(w, TRUE, "repair_err")     \* and the repair failed
             \/ /\ insert_processed_email(call[w].id)
                /\ ProcessedOk(w, token_usage,
                               IF processed_email[call[w].id] = 0
                                 THEN "ok" ELSE "unique_violation")
             \/ /\ UNCHANGED processed_email          \* another database error
                /\ ProcessedOk(w, token_usage, "db_err")
  /\ UNCHANGED <<cancelled, usage_row, calls_made, start_usage, queueVars, mapVars, runVars, limVars, laterVars>>

\* add_to_daily_quota: the SELECT of today's row
add_to_daily_quota_find(w) ==
  /\ call[w].pc = "add_to_daily_quota"
  /\ call' = [call EXCEPT ![w].pc = IF usage_row = NoRow THEN "insert" ELSE "update"]
  /\ UNCHANGED <<call_ret, token_count, cancelled, failed, processed_email_count,
                 failed_email_count, usage_row, processed_email, calls_made,
                 start_usage, tokens_ok, tokens_charged, queueVars, mapVars, runVars, limVars, laterVars>>

\* add_to_daily_quota: UPDATE tokens_consumed = tokens_consumed + tokens
add_to_daily_quota_update(w) ==
  /\ call[w].pc = "update"
  /\ usage_row' = usage_row + call[w].token_usage
  /\ call' = [call EXCEPT ![w].pc = "reread"]
  /\ UNCHANGED <<call_ret, token_count, cancelled, failed, processed_email_count,
                 failed_email_count, processed_email, calls_made,
                 start_usage, tokens_ok, tokens_charged, queueVars, mapVars, runVars, limVars, laterVars>>

\* add_to_daily_quota: INSERT of a row holding tokens; the unique index on
\* (user, date) refuses it when a row has appeared, and the error is logged
add_to_daily_quota_insert(w) ==
  /\ call[w].pc = "insert"
  /\ IF usage_row = NoRow
       THEN /\ usage_row' = call[w].token_usage
            /\ call' = [call EXCEPT ![w].pc = "reread"]
            /\ UNCHANGED call_ret
       ELSE /\ UNCHANGED usage_row
            /\ ReturnFromTally(w)
  /\ UNCHANGED <<token_count, cancelled, failed, processed_email_count,
                 failed_email_count, processed_email, calls_made,
                 start_usage, tokens_ok, tokens_charged, queueVars, mapVars, runVars, limVars, laterVars>>

\* add_to_daily_quota: the SELECT of the written row
add_to_daily_quota_reread(w) ==
  /\ call[w].pc = "reread"
  /\ call' = [call EXCEPT ![w].pc = "set_token_count", ![w].updated_tally = usage_row]
  /\ UNCHANGED <<call_ret, token_count, cancelled, failed, processed_email_count,
                 failed_email_count, usage_row, processed_email, calls_made,
                 start_usage, tokens_ok, tokens_charged, queueVars, mapVars, runVars, limVars, laterVars>>

\* add_tally_to_user_daily_quota: self.set_token_count(updated_tally)
set_token_count(w) ==
  /\ call[w].pc = "set_token_count"
  /\ token_count' = call[w].updated_tally
  /\ ReturnFromTally(w)
  /\ UNCHANGED <<cancelled, failed, processed_email_count, failed_email_count,
                 usage_row, processed_email, calls_made, start_usage, tokens_ok,
                 tokens_charged, queueVars, mapVars, runVars, limVars, laterVars>>

cancel_toggle ==
  /\ cancelled' = ~cancelled
  /\ UNCHANGED <<token_count, failed, processed_email_count, failed_email_count,
                 usage_row, processed_email, call, call_ret, calls_made, start_usage,
                 tokens_ok, tokens_charged, queueVars, mapVars, runVars, limVars, laterVars>>

cancel ==
  /\ cancelled' = TRUE
  /\ UNCHANGED <<token_count, failed, processed_email_count, failed_email_count,
                 usage_row, processed_email, call, call_ret, calls_made, start_usage,
                 tokens_ok, tokens_charged, queueVars, mapVars, runVars, limVars, laterVars>>

\* EmailProcessor::new for a user whose row of today holds tokens_consumed
NewProcessor(row) ==
  /\ usage_row = row
  /\ start_usage = (IF row = NoRow THEN 0 ELSE row)
  /\ token_count = (IF row = NoRow THEN 0 ELSE row)
  /\ cancelled = FALSE
  /\ failed = FALSE
  /\ processed_email_count = 0
  /\ failed_email_count = 0
  /\ processed_email = [id \in MsgIds |-> 0]
  /\ call = [w \in Workers |-> NoCallInProgress]
  /\ call_ret = "none"
  /\ calls_made = 0
  /\ tokens_ok = 0
  /\ tokens_charged = 0

\* ------------------------------------------------------------------------
\* EmailProcessor::run of the processor of RunEmail, beside the workers and
\* the calls that change what its ticks read
\* ------------------------------------------------------------------------
RunEmail == 1

\* the worker tasks that take part next to run()
RunWorkers == {1, 2}

procUnchangedByRun ==
  <<token_count, cancelled, processed_email_count, failed_email_count, usage_row,
    processed_email, call, call_ret, calls_made, start_usage, tokens_ok,
    tokens_charged>>

\* run() up to the loop: configure_labels_if_needed, whose error fails the
\* processor and ends run()
run_configure_labels ==
  /\ run_pc = "configure_labels_if_needed"
  /\ \/ run_pc' = "tick" /\ UNCHANGED failed
     \/ run_pc' = "done" /\ failed' = TRUE
  /\ UNCHANGED <<run_ids, num_added, procUnchangedByRun, queueVars, mapVars, limVars, laterVars>>

run_tick_unchecked ==
  /\ run_pc = "tick"
  /\ run_pc' = IF num_high_priority_in_queue(RunEmail) = 0
                 THEN "queue_recent_emails" ELSE "tick"
  /\ UNCHANGED <<run_ids, num_added, failed, procUnchangedByRun, queueVars, mapVars, limVars, laterVars>>

\* interval.tick() of the loop: the exit tests, then the test of
\* num_high_priority_in_queue that lets queue_recent_emails run
run_tick ==
  /\ run_pc = "tick"
  /\ run_pc' = IF is_cancelled \/ is_quota_reached THEN "done"
               ELSE IF is_failed THEN "done"
               ELSE IF num_high_priority_in_queue(RunEmail) = 0
                 THEN "queue_recent_emails"
               ELSE "tick"
  /\ UNCHANGED <<run_ids, num_added, failed, procUnchangedByRun, queueVars, mapVars, limVars, laterVars>>

\* queue_recent_emails: fetch_email_ids; its error fails the processor and
\* ends run()
queue_recent_emails ==
  /\ run_pc = "queue_recent_emails"
  /\ \/ /\ run_pc' = "done" /\ failed' = TRUE
        /\ UNCHANGED <<run_ids, num_added>>
     \/ \E new_email_ids \in SUBSET MsgIds :
          /\ run_ids' = new_email_ids
          /\ num_added' = 0
          /\ run_pc' = "push_recent"
          /\ UNCHANGED failed
  /\ UNCHANGED <<procUnchangedByRun, queueVars, mapVars, limVars, laterVars>>

\* one turn of the for loop of queue_recent_emails / queue_older_emails
push_new_email_id(email_id, priority) ==
  /\ email_id \in run_ids
  /\ push(RunEmail, email_id, priority)
  /\ run_ids' = run_ids \ {email_id}
  /\ num_added' = IF push_ret'.added THEN num_added + 1 ELSE num_added
  /\ UNCHANGED <<run_pc, task_pc, task_entry, processor_map, failed,
                 procUnchangedByRun, mapVars, limVars, laterVars>>

push_recent(email_id) ==
  /\ run_pc = "push_recent"
  /\ push_new_email_id(email_id, "High")

older_always ==
  /\ run_pc = "push_recent"
  /\ run_ids = {}
  /\ run_pc' = IF num_added > 0 THEN "tick" ELSE "queue_older_emails"
  /\ UNCHANGED <<run_ids, num_added, failed, procUnchangedByRun, queueVars, mapVars, limVars, laterVars>>

\* queue_recent_emails returned Ok(n): the match of run() on it
recent_queued ==
  /\ run_pc = "push_recent"
  /\ run_ids = {}
  /\ run_pc' = IF num_added > 0 THEN "tick"
               ELSE IF current_token_usage < DAILY_QUOTA \div 2
                 THEN "queue_older_emails"
               ELSE "tick"
  /\ UNCHANGED <<run_ids, num_added, failed, procUnchangedByRun, queueVars, mapVars, limVars, laterVars>>

\* queue_older_emails: fetch_email_ids; its error is logged
queue_older_emails ==
  /\ run_pc = "queue_older_emails"
  /\ \/ /\ run_pc' = "tick"
        /\ UNCHANGED <<run_ids, num_added>>
     \/ \E new_email_ids \in SUBSET MsgIds :
          /\ run_ids' = new_email_ids
          /\ num_added' = 0
          /\ run_pc' = "push_older"
  /\ UNCHANGED <<failed, procUnchangedByRun, queueVars, mapVars, limVars, laterVars>>

push_older(email_id) ==
  /\ run_pc = "push_older"
  /\ push_new_email_id(email_id, "Low")

\* queue_older_emails returned
older_queued ==
  /\ run_pc = "push_older"
  /\ run_ids = {}
  /\ run_pc' = "tick"
  /\ UNCHANGED <<run_ids, num_added, failed, procUnchangedByRun, queueVars, mapVars, limVars, laterVars>>

\* EmailProcessor::fail, called by a process_email call of a worker
fail ==
  /\ failed' = TRUE
  /\ UNCHANGED <<procUnchangedByRun, queueVars, mapVars, runVars, limVars, laterVars>>

\* EmailProcessor::fetch_add_token_count, called by a process_email call of a
\* worker
fetch_add_token_count(tokens) ==
  /\ token_count + tokens <= start_usage + MaxTokenUsage
  /\ token_count' = token_count + tokens
  /\ UNCHANGED <<cancelled, failed, processed_email_count, failed_email_count,
                 usage_row, processed_email, call, call_ret, calls_made,
                 start_usage, tokens_ok, tokens_charged, queueVars, mapVars,
                 runVars, limVars, laterVars>>

\* ------------------------------------------------------------------------
\* rate_limiters.rs : RateLimiters
\* ------------------------------------------------------------------------
Callers == 1..NumCallers

\* cfg.api.prompt_limits: the size of the bucket and what one interval adds
prompt_limit_per_sec == 1

refill_amount == 1

\* Duration::from_secs(60), of acquire_one's sleep and of the timer of
\* trigger_backoff alike, in clock units
backoff_duration == 2

\* RateLimiters::new
NewRateLimiters ==
  /\ backoff = FALSE
  /\ balance = prompt_limit_per_sec
  /\ acquire_pc = [c \in Callers |-> "idle"]
  /\ wake_at = [c \in Callers |-> 0]
  /\ timers = EmptyBag
  /\ now = 0

limUnchanged == <<queueVars, mapVars, procVars, runVars, laterVars>>

\* acquire_one, the load of the flag: a set flag sends the call to sleep for
\* backoff_duration
acquire_one_load(c) ==
  /\ acquire_pc[c] = "idle"
  /\ IF backoff
       THEN /\ acquire_pc' = [acquire_pc EXCEPT ![c] = "sleep"]
            /\ wake_at' = [wake_at EXCEPT ![c] = now + backoff_duration]
       ELSE /\ acquire_pc' = [acquire_pc EXCEPT ![c] = "acquire"]
            /\ UNCHANGED wake_at
  /\ UNCHANGED <<backoff, balance, timers, now, limUnchanged>>

\* acquire_one, the end of its sleep
acquire_one_wake(c) ==
  /\ acquire_pc[c] = "sleep"
  /\ now >= wake_at[c]
  /\ acquire_pc' = [acquire_pc EXCEPT ![c] = "acquire"]
  /\ wake_at' = [wake_at EXCEPT ![c] = 0]
  /\ UNCHANGED <<backoff, balance, timers, now, limUnchanged>>

\* acquire_one, self.prompt.acquire_one(): waits for a token of the bucket
\* and takes it
acquire_one_take(c) ==
  /\ acquire_pc[c] = "acquire"
  /\ balance > 0
  /\ balance' = balance - 1
  /\ acquire_pc' = [acquire_pc EXCEPT ![c] = "idle"]
  /\ UNCHANGED <<backoff, wake_at, timers, now, limUnchanged>>

\* the bucket's refill of one interval
refill ==
  /\ balance < prompt_limit_per_sec
  /\ balance' = IF balance + refill_amount > prompt_limit_per_sec
                  THEN prompt_limit_per_sec ELSE balance + refill_amount
  /\ UNCHANGED <<backoff, acquire_pc, wake_at, timers, now, limUnchanged>>

trigger_backoff_toggle ==
  /\ now + backoff_duration <= MaxTime
  /\ BagCardinality(timers) < MaxTimers
  /\ backoff' = ~backoff
  /\ timers' = timers (+) SetToBag({now + backoff_duration})
  /\ UNCHANGED <<balance, acquire_pc, wake_at, now, limUnchanged>>

\* trigger_backoff: sets the flag and spawns the task that clears it
trigger_backoff ==
  /\ now + backoff_duration <= MaxTime
  /\ BagCardinality(timers) < MaxTimers
  /\ backoff' = TRUE
  /\ timers' = timers (+) SetToBag({now + backoff_duration})
  /\ UNCHANGED <<balance, acquire_pc, wake_at, now, limUnchanged>>

\* the task spawned by trigger_backoff, after its sleep
backoff_expired(deadline) ==
  /\ BagIn(deadline, timers)
  /\ now >= deadline
  /\ backoff' = FALSE
  /\ timers' = timers (-) SetToBag({deadline})
  /\ UNCHANGED <<balance, acquire_pc, wake_at, now, limUnchanged>>

\* time passes; a sleep that is over ends before the clock moves on
clock_tick ==
  /\ now < MaxTime
  /\ \A deadline \in BagToSet(timers) : now < deadline
  /\ \A c \in Callers : acquire_pc[c] = "sleep" => now < wake_at[c]
  /\ now' = now + 1
  /\ UNCHANGED <<backoff, balance, acquire_pc, wake_at, timers, limUnchanged>>

\* no rate limiter takes part: its variables stay at fixed values
LimitIdle ==
  /\ backoff = FALSE /\ balance = 0 /\ acquire_pc = <<>> /\ wake_at = <<>>
  /\ timers = EmptyBag /\ now = 0

\* ------------------------------------------------------------------------
\* prompt/mistral.rs : send_category_prompt
\* ------------------------------------------------------------------------
\* the statuses a reqwest::Error can carry that the conversions tell apart,
\* "none" for an error without a status
Statuses == {"BAD_REQUEST", "REQUEST_TIMEOUT", "TOO_MANY_REQUESTS", "other", "none"}

\* impl From<reqwest::Error> for AppError, and the map_err of the body's
\* decoding, which maps the statuses alike
AppErrorOfStatus(status) ==
  CASE status = "BAD_REQUEST" -> "BadRequest"
    [] status = "REQUEST_TIMEOUT" -> "RequestTimeout"
    [] status = "TOO_MANY_REQUESTS" -> "TooManyRequests"
    [] OTHER -> "Internal"

\* ChatApiError.message
ErrorMessages == {"Requests rate limit exceeded", "Service unavailable"}

Categories == {"Ads", "Newsletter"}

NoPrompt == [err |-> "none", message |-> "none", category |-> "none"]

PromptIdle == prompt_ret = NoPrompt /\ prompt_calls = 0

\* no supervised pool takes part: its variables stay at fixed values
PoolIdle == join_set_len = 0 /\ supervisor_pc = "none"

\* no token refresh takes part: its variables stay at fixed values
TokenIdle ==
  /\ user_account_access = <<>> /\ token_call = <<>> /\ issued = 0 /\ utc_now = 0

\* no message is labelled: the variables stay at fixed values
LabelIdle ==
  /\ message_labels = {} /\ label_update = <<>> /\ label_category = <<>>
  /\ label_updates = 0

\* no mailbox is configured: the variables stay at fixed values
MailboxIdle ==
  /\ mailbox_labels = {} /\ configure_ret = FALSE /\ configure_calls = 0
  /\ all_created = FALSE

\* no prompt response is being turned into a category
GateIdle ==
  /\ prompt_response = [category |-> "none", confidence |-> 0, from |-> "none"]
  /\ email_confidence_threshold = 0
  /\ category_content = "none" /\ email_category = "none"

\* no id is being converted
NoId == [kind |-> "none", n |-> 0, s |-> <<>>]

IdIdle == id_input = NoId /\ id_output = NoId

\* no fetch_email_ids call is modelled
FetchIdle == already_processed_ids = {} /\ prompt_sent = <<>>

\* no thread is inside a method of the queue
NoLockCall == [op |-> "none", pc |-> "none", email_id |-> 0, priority |-> "None"]

LockIdle ==
  /\ queue_mutex = 0 /\ set_mutex = 0
  /\ counter_rwlock = [writer |-> 0, readers |-> {}]
  /\ lock_call = <<>>

\* no cleanup run is modelled
CleanupIdle ==
  /\ cleanup_pc = "none" /\ cleanup_todo = {} /\ keep_ids = {}
  /\ settings_todo = 0 /\ cleanup_setting = "none" /\ emails_to_cleanup = <<>>
  /\ cleanup_queue = <<>> /\ thread_pc = <<>> /\ thread_email = <<>>
  /\ cleanup_calls = <<>> /\ failed_calls = FALSE

LaterIdle ==
  PromptIdle /\ PoolIdle /\ TokenIdle /\ LabelIdle /\ MailboxIdle /\ GateIdle /\ IdIdle /\ FetchIdle /\ LockIdle /\ CleanupIdle

\* send_category_prompt: the request or the decoding of its body fails with a
\* reqwest::Error; or the body is no chat response; or it is a ChatApiError,
\* whose rate limit message calls rate_limiters.trigger_backoff(); or it is a
\* chat response, with or without a usable choice
send_category_prompt ==
  /\ prompt_calls < MaxPrompts
  /\ prompt_calls' = prompt_calls + 1
  /\ \/ \E status \in Statuses :
          /\ prompt_ret' = [NoPrompt EXCEPT !.err = AppErrorOfStatus(status)]
          /\ UNCHANGED <<backoff, timers>>
     \/ /\ prompt_ret' = [NoPrompt EXCEPT !.err = "Internal"]
        /\ UNCHANGED <<backoff, timers>>
     \/ \E message \in ErrorMessages :
          /\ prompt_ret' = [NoPrompt EXCEPT !.err = "Internal", !.message = message]
          /\ IF message = "Requests rate limit exceeded"
               THEN /\ now + backoff_duration <= MaxTime
                    /\ BagCardinality(timers) < MaxTimers
                    /\ backoff' = TRUE
                    /\ timers' = timers (+) SetToBag({now + backoff_duration})
               ELSE UNCHANGED <<backoff, timers>>
     \/ \E category \in Categories :
          /\ prompt_ret' = [NoPrompt EXCEPT !.category = category]
          /\ UNCHANGED <<backoff, timers>>
  /\ UNCHANGED <<balance, acquire_pc, wake_at, now, queueVars, mapVars, procVars,
                 runVars, promptOthers>>

\* no run() takes part: its variables stay at fixed values
RunIdle == run_pc = "none" /\ run_ids = {} /\ num_added = 0

\* no processor takes part: its variables stay at fixed values
ProcIdle ==
  /\ usage_row = NoRow /\ start_usage = 0 /\ token_count = 0
  /\ cancelled = FALSE /\ failed = FALSE
  /\ processed_email_count = 0 /\ failed_email_count = 0
  /\ processed_email = <<>> /\ call = <<>> /\ call_ret = "none"
  /\ calls_made = 0 /\ tokens_ok = 0 /\ tokens_charged = 0

\* ActiveEmailProcessors::new
NewMap ==
  /\ email_to_active_proc = [e \in MapUsers |-> 0]
  /\ waiting_queue = <<>>
  /\ proc = [id \in ProcIds |-> NoProc]
  /\ next_proc = 1
  /\ usage_today = [e \in MapUsers |-> 0]

\* no registry takes part: its variables stay at fixed values
MapIdle ==
  /\ email_to_active_proc = <<>> /\ waiting_queue = <<>> /\ proc = <<>>
  /\ next_proc = 1 /\ usage_today = <<>>

\* PromptPriorityQueue::new, an empty processor map and the idle workers
NewQueue ==
  /\ queue = EmptyBag
  /\ num_in_queue_by_email_address = [e \in Emails |-> NoCount]
  /\ in_processing_set = {}
  /\ push_ret = NoCall
  /\ task_pc = [w \in Workers |-> "pop"]
  /\ task_entry = [w \in Workers |-> NoEntry]
  /\ processor_map = {}

Init == NewQueue /\ MapIdle /\ ProcIdle /\ RunIdle /\ LimitIdle /\ LaterIdle

Next ==
  \/ \E e \in Emails : insert(e)
  \/ \E e \in Emails, id \in MsgIds, p \in Priority : queue_emails(e, id, p)
  \/ run_processor_cleanup_loop
  \/ \E w \in Workers : task_pop(w)
  \/ \E w \in Workers : task_get(w)
  \/ \E w \in Workers : task_processed(w)

Spec == Init /\ [][Next]_vars

\* ------------------------------------------------------------------------
\* Properties of the prompt priority queue and the worker pool
\* ------------------------------------------------------------------------
HeldBy(w, id) == task_entry[w] # NoEntry /\ task_entry[w].email_id = id

InHeap(id) == \E e \in BagToSet(queue) : e.email_id = id

\* a step in which push was called with email_id = id
PushStep(id) ==
  \/ push_ret' = [email_id |-> id, added |-> FALSE] /\ push_ret' # push_ret
  \/ \E e \in BagToSet(queue') :
       e.email_id = id /\ CopiesIn(e, queue') > CopiesIn(e, queue)

\* C1: no two worker tasks hold (and so run process_email for) the same
\* msg_id at the same time, from a worker's pop of an entry to the end of
\* its handling of that entry.
NoConcurrentSameMessage ==
  \A w1, w2 \in Workers :
    (w1 # w2 /\ task_entry[w1] # NoEntry /\ task_entry[w2] # NoEntry)
      => task_entry[w1].email_id # task_entry[w2].email_id

\* two workers are inside process_email at once, and a push of the msg_id one
\* of them holds has just been refused
WitnessNoConcurrentSameMessage ==
  /\ \A w \in Workers : task_pc[w] = "process_email"
  /\ \E w \in Workers : HeldBy(w, push_ret.email_id)
  /\ ~push_ret.added

\* C2: while a msg_id is in flight (pushed successfully and not yet removed
\* by remove_from_processing: still in the heap, or popped and held by a
\* worker), every push of that msg_id returns false and leaves the heap, the
\* per-email counters and the in-flight set unchanged.
PushRefusedWhileInFlight ==
  [][\A id \in MsgIds :
       ( /\ \/ id \in in_processing_set
            \/ InHeap(id)
            \/ \E w \in Workers : HeldBy(w, id)
         /\ PushStep(id) )
       => /\ push_ret'.added = FALSE
          /\ UNCHANGED <<queue, num_in_queue_by_email_address, in_processing_set>>]_vars

\* a push was refused for a msg_id that is no longer in the heap: a worker
\* had already popped it and is inside process_email
WitnessPushRefusedWhileInFlight ==
  \E w \in Workers :
    /\ task_pc[w] = "process_email"
    /\ HeldBy(w, push_ret.email_id)
    /\ ~push_ret.added
    /\ ~InHeap(push_ret.email_id)
    /\ queue # EmptyBag

\* C3: every entry in the heap has its msg_id in the in-flight set, and the
\* heap never holds two entries with the same msg_id.
HeapEntriesInFlight ==
  /\ \A e \in BagToSet(queue) : e.email_id \in in_processing_set
  /\ \A e \in BagToSet(queue) : CopiesIn(e, queue) = 1
  /\ \A e1, e2 \in BagToSet(queue) : e1.email_id = e2.email_id => e1 = e2

\* an entry sits in the heap while a worker has finished another one and a
\* third party's duplicate push was refused
WitnessHeapEntriesInFlight ==
  /\ BagCardinality(queue) = 1
  /\ InHeap(push_ret.email_id)
  /\ ~push_ret.added
  /\ \E w \in Workers : task_pc[w] = "process_email"

\* C4: pop never returns a Low-priority entry while the heap contains a
\* High-priority entry of any user.
HighBeforeLow ==
  [][\A w \in Workers :
       (task_pc[w] = "pop" /\ task_pc'[w] = "get" /\ task_entry'[w].priority = "Low")
         => \A e \in BagToSet(queue) : e.priority # "High"]_vars

\* a worker has popped a High entry of one user while a Low entry of another
\* user stays behind in the heap
WitnessHighBeforeLow ==
  \E w \in Workers :
    /\ task_pc[w] = "get"
    /\ task_entry[w].priority = "High"
    /\ \E e \in BagToSet(queue) :
         e.priority = "Low" /\ e.user_email # task_entry[w].user_email

\* C5: every entry a worker pops is followed by remove_from_processing for
\* its msg_id: when the worker lets go of the entry, the msg_id has left the
\* in-flight set, whether or not the owning processor was found in the map.
EveryPopIsReleased ==
  [][\A w \in Workers :
       (task_entry[w] # NoEntry /\ task_entry'[w] = NoEntry)
         => task_entry[w].email_id \notin in_processing_set']_vars

\* ------------------------------------------------------------------------
\* The processor registry on its own
\* ------------------------------------------------------------------------
\* no queue and no worker takes part: their variables stay at fixed values
QueueIdle ==
  /\ queue = EmptyBag /\ num_in_queue_by_email_address = <<>>
  /\ in_processing_set = {} /\ push_ret = NoCall
  /\ task_pc = <<>> /\ task_entry = <<>> /\ processor_map = {}

InitMap == QueueIdle /\ NewMap /\ ProcIdle /\ RunIdle /\ LimitIdle /\ LaterIdle

NextMap ==
  \/ \E e \in 1..NumTaskUsers : add_to_processing(e)
  \/ cleanup_finished_processors
  \/ \E id \in ProcIds : spawned_task_start(id)
  \/ \E id \in ProcIds : spawned_queue_new_emails(id)
  \/ \E id \in ProcIds : thread_get_next(id)
  \/ \E id \in ProcIds : thread_process_email(id)
  \/ \E id \in ProcIds : spawned_task_finish(id)

SpecMap == InitMap /\ [][NextMap]_vars

\* the runtime runs every spawned task (the last outstanding queue_new_emails
\* task of a processor included), and the cleanup loop of main comes round
\* again and again
FairMap ==
  /\ \A id \in ProcIds :
        /\ WF_vars(spawned_task_start(id))
        /\ WF_vars(spawned_queue_new_emails(id) /\ ~proc'[id].fetching)
        /\ WF_vars(thread_get_next(id))
        /\ WF_vars(thread_process_email(id))
        /\ WF_vars(spawned_task_finish(id))
  /\ WF_vars(cleanup_finished_processors)

SpecMapFair == InitMap /\ [][NextMap]_vars /\ FairMap

\* ------------------------------------------------------------------------
\* The registry with the processors seen as the registry reads them:
\* whether email_queue is empty
\* ------------------------------------------------------------------------
\* queue_new_emails of a processor returns, with ids added to the queue or
\* none, be it the first call of the spawned task or one that
\* insert_processor spawned for an existing processor
queue_new_emails_returns(id) ==
  /\ proc[id].task = "queue_new_emails" \/ proc[id].fetching
  /\ \E added \in 0..(1 - proc[id].email_queue) :
       proc' = [proc EXCEPT ![id].email_queue = @ + added,
                            ![id].task = "process_emails_in_queue",
                            ![id].fetching = FALSE]
  /\ UNCHANGED <<email_to_active_proc, waiting_queue, next_proc, usage_today, queueVars, procVars, runVars, limVars, laterVars>>

\* the tasks of process_emails_in_queue have taken every id of the queue
email_queue_drained(id) ==
  /\ proc[id].task = "process_emails_in_queue"
  /\ proc[id].email_queue > 0
  /\ proc' = [proc EXCEPT ![id].email_queue = 0]
  /\ UNCHANGED <<email_to_active_proc, waiting_queue, next_proc, usage_today, queueVars, procVars, runVars, limVars, laterVars>>

NextRegistry ==
  \/ \E e \in 1..NumTaskUsers : add_to_processing(e)
  \/ cleanup_finished_processors
  \/ \E id \in ProcIds : queue_new_emails_returns(id)
  \/ \E id \in ProcIds : email_queue_drained(id)

SpecRegistry == InitMap /\ [][NextRegistry]_vars

NextWaiting ==
  \/ \E e \in MapUsers : add_to_processing(e)
  \/ cleanup_finished_processors
  \/ \E id \in ProcIds : queue_new_emails_returns(id)
  \/ \E id \in ProcIds : email_queue_drained(id)

SpecWaiting == InitMap /\ [][NextWaiting]_vars

\* a processor instance exists while the map stores it or a task holds it
HeldByTask(id) ==
  proc[id].task \in {"queue_new_emails", "process_emails_in_queue"} \/ proc[id].fetching

StoredInMap(id) == proc[id].email # 0 /\ email_to_active_proc[proc[id].email] = id

LiveProcessors(e) ==
  {id \in ProcIds : /\ proc[id].email = e
                    /\ StoredInMap(id) \/ HeldByTask(id)
                    /\ ~proc_is_cancelled(proc[id])
                    /\ ~proc_is_quota_reached(proc[id])}

\* C6: at any instant at most one live processor (not Cancelled, Failed or
\* QuotaExceeded) exists per user email, counting the processors a running
\* task still holds as well as those stored in the map.
AtMostOneLiveProcessor ==
  \A e \in MapUsers : Cardinality(LiveProcessors(e)) <= 1

\* ------------------------------------------------------------------------
\* One processor and the workers calling it
\* ------------------------------------------------------------------------
InitProc ==
  /\ QueueIdle
  /\ MapIdle
  /\ RunIdle
  /\ LimitIdle
  /\ LaterIdle
  /\ \E row \in {NoRow, DAILY_QUOTA - 2, DAILY_QUOTA - 1} : NewProcessor(row)

\* the messages whose entries the workers hand to this processor
ProcMsgIds == {1, 2}

NextProc ==
  \/ \E w \in Workers, id \in ProcMsgIds, p \in Priority : process_email(w, id, p)
  \/ \E w \in Workers : run_email_processes(w)
  \/ \E w \in Workers : parse_and_prompt_email(w)
  \/ \E w \in Workers : add_to_daily_quota_find(w)
  \/ \E w \in Workers : add_to_daily_quota_update(w)
  \/ \E w \in Workers : add_to_daily_quota_insert(w)
  \/ \E w \in Workers : add_to_daily_quota_reread(w)
  \/ \E w \in Workers : set_token_count(w)
  \/ cancel

SpecProc == InitProc /\ [][NextProc]_vars

Drained == \A w \in Workers : call[w].pc = "idle"

\* C7: a process_email call that starts while the processor is cancelled or
\* failed, or while token_count >= DAILY_QUOTA (equality included), returns
\* at once: no message is fetched, no classifier call, label update or
\* processed_email insert follows, and no counter changes.
DroppedWhenTerminal ==
  [][( /\ calls_made' = calls_made + 1
       /\ cancelled \/ failed \/ token_count >= DAILY_QUOTA )
     => /\ \A w \in Workers : call'[w] = call[w] \/ call'[w].pc = "idle"
        /\ call_ret' = "dropped"
        /\ UNCHANGED <<token_count, cancelled, failed, processed_email_count,
                       failed_email_count, usage_row, processed_email,
                       tokens_ok, tokens_charged>>]_vars

\* a call was dropped with token_count exactly at the daily quota, the
\* processor being neither cancelled nor failed
WitnessDroppedWhenTerminal ==
  /\ token_count = DAILY_QUOTA
  /\ ~cancelled /\ ~failed
  /\ Drained
  /\ call_ret = "dropped"

\* C8: once token_count >= DAILY_QUOTA (status() reports QuotaExceeded),
\* token_count never drops back below the daily quota.
QuotaExceededIsStable ==
  [][token_count >= DAILY_QUOTA => token_count' >= DAILY_QUOTA]_vars

\* C9: no operation stores false into the cancelled or the failed flag: once
\* is_cancelled() (is_failed()) returned true it returns true forever.
FlagsAreMonotonic ==
  [][(cancelled => cancelled') /\ (failed => failed')]_vars

\* both flags are set, and process_email calls have run and returned since
WitnessFlagsAreMonotonic ==
  /\ cancelled /\ failed
  /\ calls_made = MaxCalls
  /\ Drained
  /\ call_ret = "dropped"

\* C10: after all in-flight work has drained, tokens_consumed of today's
\* usage row equals its starting value plus the token usages of all messages
\* processed successfully.
TallyEqualsTokensCharged ==
  Drained => get_usage_today = start_usage + tokens_ok

\* ------------------------------------------------------------------------
\* run() of one processor, the workers, and cancel / fail / token usage
\* ------------------------------------------------------------------------
InitRun ==
  /\ queue = EmptyBag
  /\ num_in_queue_by_email_address = [e \in Emails |-> NoCount]
  /\ in_processing_set = {}
  /\ push_ret = NoCall
  /\ task_pc = [w \in Workers |-> "pop"]
  /\ task_entry = [w \in Workers |-> NoEntry]
  /\ processor_map = {RunEmail}
  /\ MapIdle
  /\ \E row \in {NoRow, DAILY_QUOTA \div 2 - 1, DAILY_QUOTA - 1} : NewProcessor(row)
  /\ run_pc = "configure_labels_if_needed"
  /\ run_ids = {}
  /\ num_added = 0
  /\ LimitIdle
  /\ LaterIdle

NextRun ==
  \/ run_configure_labels
  \/ run_tick
  \/ queue_recent_emails
  \/ \E id \in MsgIds : push_recent(id)
  \/ recent_queued
  \/ queue_older_emails
  \/ \E id \in MsgIds : push_older(id)
  \/ older_queued
  \/ cancel
  \/ fail
  \/ \E tokens \in TokenUsages \ {0} : fetch_add_token_count(tokens)
  \/ \E w \in RunWorkers : task_pop(w)
  \/ \E w \in RunWorkers : task_get(w)
  \/ \E w \in RunWorkers : task_processed(w)

SpecRun == InitRun /\ [][NextRun]_vars

\* ------------------------------------------------------------------------
\* the rate limiter, its callers and the clock
\* ------------------------------------------------------------------------
InitLimit == QueueIdle /\ MapIdle /\ ProcIdle /\ RunIdle /\ NewRateLimiters /\ LaterIdle

NextLimit ==
  \/ \E c \in Callers : acquire_one_load(c)
  \/ \E c \in Callers : acquire_one_wake(c)
  \/ \E c \in Callers : acquire_one_take(c)
  \/ refill
  \/ trigger_backoff
  \/ \E deadline \in 0..MaxTime : backoff_expired(deadline)
  \/ clock_tick

SpecLimit == InitLimit /\ [][NextLimit]_vars

\* the tokio runtime lets time pass and runs every task whose sleep is over
FairLimit ==
  /\ WF_vars(clock_tick)
  /\ \A deadline \in 0..MaxTime : WF_vars(backoff_expired(deadline))
  /\ \A c \in Callers : WF_vars(acquire_one_wake(c))

SpecLimitFair == InitLimit /\ [][NextLimit]_vars /\ FairLimit

\* ------------------------------------------------------------------------
\* classification requests against the rate limiter
\* ------------------------------------------------------------------------
InitPrompt ==
  /\ QueueIdle /\ MapIdle /\ ProcIdle /\ RunIdle /\ NewRateLimiters
  /\ PromptIdle /\ PoolIdle /\ TokenIdle /\ LabelIdle /\ MailboxIdle /\ GateIdle /\ IdIdle /\ FetchIdle /\ LockIdle /\ CleanupIdle

NextPrompt ==
  \/ send_category_prompt
  \/ \E c \in Callers : acquire_one_load(c)
  \/ \E c \in Callers : acquire_one_wake(c)
  \/ \E c \in Callers : acquire_one_take(c)
  \/ refill
  \/ \E deadline \in 0..MaxTime : backoff_expired(deadline)
  \/ clock_tick

SpecPrompt == InitPrompt /\ [][NextPrompt]_vars

\* ------------------------------------------------------------------------
\* email/tasks.rs : run_email_processing_loop, the supervised worker pool
\* ------------------------------------------------------------------------
\* cfg.api.prompt_limits.rate_limit_per_sec * 2 - 1, the number of worker tasks
max_threads == NumWorkers

\* run_email_processing_loop up to the spawn of the supervisor: max_threads
\* tasks are in the JoinSet
InitPool ==
  /\ NewQueue /\ MapIdle /\ ProcIdle /\ RunIdle /\ LimitIdle /\ PromptIdle /\ TokenIdle
  /\ LabelIdle /\ MailboxIdle /\ GateIdle /\ IdIdle /\ FetchIdle /\ LockIdle /\ CleanupIdle
  /\ join_set_len = max_threads
  /\ supervisor_pc = "check"

\* a worker task ends by a panic inside process_email; the ended task stays
\* in the JoinSet, which nothing joins, and its msg_id in the in-flight set
task_panic(w) ==
  /\ task_pc[w] = "process_email"
  /\ task_pc' = [task_pc EXCEPT ![w] = "exited"]
  /\ UNCHANGED <<queue, num_in_queue_by_email_address, in_processing_set, push_ret,
                 task_entry, processor_map, mapVars, procVars, runVars, limVars,
                 laterVars>>

\* the supervisor's test of join_set.len(): on a mismatch abort_all(), which
\* leaves the aborted tasks in the set, and max_threads new tasks
supervisor_check ==
  /\ supervisor_pc = "check"
  /\ supervisor_pc' = "sleep"
  /\ IF join_set_len # max_threads
       THEN /\ task_pc' = [w \in Workers |-> "pop"]
            /\ task_entry' = [w \in Workers |-> NoEntry]
            /\ join_set_len' = join_set_len + max_threads
       ELSE UNCHANGED <<task_pc, task_entry, join_set_len>>
  /\ UNCHANGED <<queue, num_in_queue_by_email_address, in_processing_set, push_ret,
                 processor_map, mapVars, procVars, runVars, limVars, poolOthers>>

\* the supervisor's sleep of one second
supervisor_sleep ==
  /\ supervisor_pc = "sleep"
  /\ supervisor_pc' = "check"
  /\ UNCHANGED <<join_set_len, queueVars, mapVars, procVars, runVars, limVars,
                 poolOthers>>

NextPool ==
  \/ \E e \in Emails : insert(e)
  \/ \E e \in Emails, id \in MsgIds, p \in Priority : queue_emails(e, id, p)
  \/ run_processor_cleanup_loop
  \/ \E w \in Workers : task_pop(w)
  \/ \E w \in Workers : task_get(w)
  \/ \E w \in Workers : task_processed(w)
  \/ \E w \in Workers : task_panic(w)
  \/ supervisor_check
  \/ supervisor_sleep

\* the tokio runtime runs the supervisor task
FairPool == WF_vars(supervisor_check) /\ WF_vars(supervisor_sleep)

SpecPool == InitPool /\ [][NextPool]_vars /\ FairPool

\* ------------------------------------------------------------------------
\* model/user_derivatives.rs, model/user.rs, email/client.rs : the access
\* token of a user and its refresh
\* ------------------------------------------------------------------------
\* the tasks that build an EmailClient for the user: processor creation,
\* auto-cleanup, daily digest, account-connection check
Tasks == 1..NumTasks

\* the two helpers
Helpers == {"get_valid_access_code", "get_new_token"}

\* a token v in plaintext
plain(v) == [depth |-> 0, v |-> v]

\* lib_utils::crypt: a ciphertext is not the plaintext (depth counts the
\* encryptions applied), and decrypt undoes encrypt
encrypt(token) == [token EXCEPT !.depth = @ + 1]

decrypt(token) == [token EXCEPT !.depth = @ - 1]

IsPlain(token) == token.depth = 0

NoToken == plain(-1)

NoRow_account_access ==
  [access_token |-> NoToken, refresh_token |-> NoToken, expires_at |-> -1]

\* GmailApiRefreshTokenResponse.expires_in, in clock units
expires_in == 1

NoTokenCall ==
  [pc |-> "idle", helper |-> "none", access_token |-> NoToken,
   refresh_token |-> NoToken, expires_at |-> 0, expired |-> FALSE,
   sent |-> NoToken, resp |-> NoToken, ok |-> FALSE, ret |-> NoToken,
   wrote |-> NoRow_account_access]

\* routes/auth.rs stores both tokens encrypted
InitToken ==
  /\ QueueIdle /\ MapIdle /\ ProcIdle /\ RunIdle /\ LimitIdle /\ PromptIdle /\ PoolIdle
  /\ LabelIdle /\ MailboxIdle /\ GateIdle /\ IdIdle /\ FetchIdle /\ LockIdle /\ CleanupIdle
  /\ \E expires_at \in 0..1 :
       user_account_access = [access_token |-> encrypt(plain(1)),
                              refresh_token |-> encrypt(plain(0)),
                              expires_at |-> expires_at]
  /\ token_call = [t \in Tasks |-> NoTokenCall]
  /\ issued = 1
  /\ utc_now = 0

tokenUnchanged == <<queueVars, mapVars, procVars, runVars, limVars, tokenOthers>>

\* UserCtrl::get_with_account_access_by_id / _by_email: the task reads the
\* row into its own struct and calls the helper on it
get_with_account_access(t, helper) ==
  /\ token_call[t].pc = "idle"
  /\ token_call' = [token_call EXCEPT ![t] =
       [NoTokenCall EXCEPT !.pc = "expires_at",
                           !.helper = helper,
                           !.access_token = user_account_access.access_token,
                           !.refresh_token = user_account_access.refresh_token,
                           !.expires_at = user_account_access.expires_at]]
  /\ UNCHANGED <<user_account_access, issued, utc_now, tokenUnchanged>>

\* what the helper returns for a token that has not expired:
\* get_valid_access_code the field as stored, get_new_token its decryption
unexpired_token(c) ==
  IF c.helper = "get_new_token" THEN decrypt(c.access_token) ELSE c.access_token

\* what the helper sends to exchange_refresh_token
sent_refresh_token(c) ==
  IF c.helper = "get_new_token" THEN decrypt(c.refresh_token) ELSE c.refresh_token

\* the test expires_at < Utc::now() and, for a token still valid, the return
test_expires_at(t) ==
  LET c == token_call[t] IN
  /\ c.pc = "expires_at"
  /\ IF c.expires_at < utc_now
       THEN token_call' = [token_call EXCEPT ![t].pc = "exchange_refresh_token",
                                             ![t].expired = TRUE]
       ELSE token_call' = [token_call EXCEPT ![t].pc = "done",
                                             ![t].ok = TRUE,
                                             ![t].ret = unexpired_token(c)]
  /\ UNCHANGED <<user_account_access, issued, utc_now, tokenUnchanged>>

\* auth::exchange_refresh_token: an error ends the helper, else the provider
\* issues a new access token
exchange_refresh_token(t) ==
  LET c == token_call[t] IN
  /\ c.pc = "exchange_refresh_token"
  /\ \/ /\ token_call' = [token_call EXCEPT ![t].pc = "done",
                                             ![t].sent = sent_refresh_token(c)]
        /\ UNCHANGED issued
     \/ /\ issued < MaxIssued
        /\ issued' = issued + 1
        /\ token_call' = [token_call EXCEPT ![t].pc = "update_account_access",
                                             ![t].sent = sent_refresh_token(c),
                                             ![t].resp = plain(issued + 1)]
  /\ UNCHANGED <<user_account_access, utc_now, tokenUnchanged>>

\* _update_account_access / update_account_access: the UPDATE of the row, whose
\* error ends the helper; then the struct's field and the return
update_account_access(t) ==
  LET c == token_call[t]
      row == [user_account_access EXCEPT !.access_token = encrypt(c.resp),
                                         !.expires_at = utc_now + expires_in]
  IN
  /\ c.pc = "update_account_access"
  /\ \/ /\ token_call' = [token_call EXCEPT ![t].pc = "done"]
        /\ UNCHANGED user_account_access
     \/ /\ user_account_access' = row
        /\ token_call' = [token_call EXCEPT
             ![t].pc = "done",
             ![t].ok = TRUE,
             ![t].wrote = row,
             ![t].access_token = IF c.helper = "get_new_token"
                                   THEN encrypt(c.resp) ELSE c.resp,
             ![t].ret = c.resp]
  /\ UNCHANGED <<issued, utc_now, tokenUnchanged>>

\* time passes
utc_tick ==
  /\ utc_now < MaxUtc
  /\ utc_now' = utc_now + 1
  /\ UNCHANGED <<user_account_access, token_call, issued, tokenUnchanged>>

NextToken ==
  \/ \E t \in Tasks, helper \in Helpers : get_with_account_access(t, helper)
  \/ \E t \in Tasks : test_expires_at(t)
  \/ \E t \in Tasks : exchange_refresh_token(t)
  \/ \E t \in Tasks : update_account_access(t)
  \/ utc_tick

SpecToken == InitToken /\ [][NextToken]_vars

\* ------------------------------------------------------------------------
\* email/client.rs : build_label_update and label_email
\* ------------------------------------------------------------------------
\* the provider's category labels, the ones RE_CATEGORY_LABEL matches
ProviderCategories == {"CATEGORY_SOCIAL", "CATEGORY_PROMOTIONS"}

\* the id of the user label whose name is category.mail_label
MailLabelId == "Label_10"

\* the labels a message can carry
LabelIds == ProviderCategories \cup {"INBOX", "UNREAD", "IMPORTANT", "SPAM", MailLabelId}

RE_CATEGORY_LABEL(label) == label \in ProviderCategories

\* a Category of the configuration with the inbox setting of its mail label
LabelCategories ==
  [gmail_categories : SUBSET ProviderCategories, important : BOOLEAN,
   mark_spam : BOOLEAN]

build_label_update_strip_all(current_labels, category) ==
  LET categories_to_remove == {c \in current_labels : RE_CATEGORY_LABEL(c)}
      label_ids_to_add ==
        category.gmail_categories
          \cup (IF category.mark_spam THEN {"SPAM"} ELSE {})
          \cup {MailLabelId}
          \cup (IF category.important THEN {"IMPORTANT"} ELSE {})
  IN [addLabelIds |-> label_ids_to_add, removeLabelIds |-> categories_to_remove]

\* build_label_update, for a mail label that is among the user's labels
build_label_update(current_labels, category) ==
  LET current_categories == {c \in current_labels : RE_CATEGORY_LABEL(c)}
      categories_to_remove ==
        {c \in current_categories : c \notin category.gmail_categories}
      categories_to_add ==
        category.gmail_categories
          \cup (IF category.mark_spam THEN {"SPAM"} ELSE {})
      label_ids_to_add ==
        categories_to_add \cup {MailLabelId}
          \cup (IF category.important THEN {"IMPORTANT"} ELSE {})
  IN [addLabelIds |-> label_ids_to_add, removeLabelIds |-> categories_to_remove]

\* label_email with the message's current labels: messages.modify takes
\* removeLabelIds from the message and puts addLabelIds on it
label_email(category) ==
  LET update == build_label_update(message_labels, category) IN
  /\ label_updates < MaxLabelUpdates
  /\ label_updates' = label_updates + 1
  /\ label_update' = update
  /\ label_category' = category
  /\ message_labels' = (message_labels \ update.removeLabelIds) \cup update.addLabelIds
  /\ UNCHANGED <<queueVars, mapVars, procVars, runVars, limVars, labelOthers>>

InitLabel ==
  /\ QueueIdle /\ MapIdle /\ ProcIdle /\ RunIdle /\ LimitIdle
  /\ PromptIdle /\ PoolIdle /\ TokenIdle /\ MailboxIdle /\ GateIdle /\ IdIdle /\ FetchIdle /\ LockIdle /\ CleanupIdle
  /\ message_labels \in SUBSET LabelIds
  /\ label_update = [addLabelIds |-> {}, removeLabelIds |-> {}]
  /\ label_category = [gmail_categories |-> {}, important |-> FALSE, mark_spam |-> FALSE]
  /\ label_updates = 0

NextLabel == \E category \in LabelCategories : label_email(category)

SpecLabel == InitLabel /\ [][NextLabel]_vars

\* ------------------------------------------------------------------------
\* email/client.rs : configure_labels_if_needed
\* ------------------------------------------------------------------------
\* mail_label of cfg.categories and cfg.heuristics
CfgMailLabels == {"mailclerk:ads", "mailclerk:newsletter"}

\* UNKNOWN_CATEGORY.mail_label and DAILY_SUMMARY_CATEGORY.mail_label
UnknownMailLabel == "uncategorized"

DailySummaryMailLabel == "daily_summary"

\* the label names a mailbox can hold
LabelNames ==
  CfgMailLabels \cup {UnknownMailLabel, DailySummaryMailLabel, "mailclerk:old", "Receipts"}

\* n.contains("mailclerk:")
ContainsMailclerk(name) == name \in {"mailclerk:ads", "mailclerk:newsletter", "mailclerk:old"}

\* configure_labels_if_needed: the labels of the mailbox whose name contains
\* "mailclerk:" against the required names; when a name is missing or
\* unneeded, create_label for the configured names, whose errors are logged
configure_labels_if_needed ==
  LET existing_label_names == {n \in mailbox_labels : ContainsMailclerk(n)}
      required_labels == CfgMailLabels \cup {UnknownMailLabel, DailySummaryMailLabel}
      missing_labels == required_labels \ existing_label_names
      unneeded_labels == existing_label_names \ required_labels
      labels_to_add == CfgMailLabels
  IN
  /\ configure_calls < MaxConfigureCalls
  /\ configure_calls' = configure_calls + 1
  /\ IF missing_labels = {} /\ unneeded_labels = {}
       THEN /\ configure_ret' = FALSE
            /\ all_created' = TRUE
            /\ UNCHANGED mailbox_labels
       ELSE /\ configure_ret' = TRUE
            /\ \E created \in SUBSET labels_to_add :
                 /\ mailbox_labels' = mailbox_labels \cup created
                 /\ all_created' = (created = labels_to_add)
  /\ UNCHANGED <<queueVars, mapVars, procVars, runVars, limVars, mailboxOthers>>

InitMailbox ==
  /\ QueueIdle /\ MapIdle /\ ProcIdle /\ RunIdle /\ LimitIdle
  /\ PromptIdle /\ PoolIdle /\ TokenIdle /\ LabelIdle /\ GateIdle /\ IdIdle /\ FetchIdle /\ LockIdle /\ CleanupIdle
  /\ mailbox_labels \in SUBSET LabelNames
  /\ configure_ret = FALSE
  /\ configure_calls = 0
  /\ all_created = FALSE

NextMailbox == configure_labels_if_needed

SpecMailbox == InitMailbox /\ [][NextMailbox]_vars

\* ------------------------------------------------------------------------
\* email/processor/email_processor.rs : parse_and_prompt_email, the category
\* ------------------------------------------------------------------------
Confidences == 0..MaxConfidence

\* content of cfg.categories
CfgCategoryContents == Categories \cup {"Security Alert", "Verification Code"}

\* what the model may answer: a configured category or any other text
Answers == CfgCategoryContents \cup {"Bogus"}

\* content of cfg.heuristics, in the order of the configuration
CfgHeuristics == <<"Amazon", "noreply">>

CfgHeuristicContents == {CfgHeuristics[i] : i \in DOMAIN CfgHeuristics}

\* the from header of a message: None, or an address
Froms == {"none", "noreply@Amazon.com", "noreply@example.com", "bob@example.com"}

\* from.contains(&c.content)
FromContains(from, content) ==
  \/ from = "noreply@Amazon.com" /\ content \in {"Amazon", "noreply"}
  \/ from = "noreply@example.com" /\ content = "noreply"

\* the heuristic taken from the end of the configuration
last_heuristic(from) ==
  CfgHeuristics[CHOOSE i \in DOMAIN CfgHeuristics :
                  /\ FromContains(from, CfgHeuristics[i])
                  /\ \A j \in DOMAIN CfgHeuristics :
                       FromContains(from, CfgHeuristics[j]) => j <= i]

\* cfg.heuristics.iter().find(|c| from.contains(&c.content)).unwrap()
first_heuristic(from) ==
  CfgHeuristics[CHOOSE i \in DOMAIN CfgHeuristics :
                  /\ FromContains(from, CfgHeuristics[i])
                  /\ \A j \in DOMAIN CfgHeuristics :
                       FromContains(from, CfgHeuristics[j]) => i <= j]

\* cfg.categories.iter().find(|c| c.content == content).unwrap_or(&UNKNOWN_CATEGORY)
find_category(content) == IF content \in CfgCategoryContents THEN content ELSE "Unknown"

\* the gate with the threshold taken as a lower bound that is not included
confidence_gate_inclusive(category, confidence, threshold) ==
  IF confidence <= threshold THEN "Unknown" ELSE category

\* if confidence < cfg.model.email_confidence_threshold { category_content = "Unknown" }
confidence_gate(category, confidence, threshold) ==
  IF confidence < threshold THEN "Unknown" ELSE category

\* parse_and_prompt_email from the prompt's response to email_category
email_category_of_response ==
  /\ category_content = "none"
  /\ LET content == confidence_gate(prompt_response.category, prompt_response.confidence,
                                     email_confidence_threshold)
          category == find_category(content)
          from == prompt_response.from
     IN /\ category_content' = content
        /\ email_category' =
             IF /\ from # "none"
                /\ category \notin {"Terms of Service Update", "Verification Code",
                                     "Security Alert"}
                /\ \E c \in CfgHeuristicContents : FromContains(from, c)
               THEN first_heuristic(from)
               ELSE find_category(content)
  /\ UNCHANGED <<prompt_response, email_confidence_threshold>>
  /\ UNCHANGED <<queueVars, mapVars, procVars, runVars, limVars, gateOthers>>

InitGate ==
  /\ QueueIdle /\ MapIdle /\ ProcIdle /\ RunIdle /\ LimitIdle
  /\ PromptIdle /\ PoolIdle /\ TokenIdle /\ LabelIdle /\ MailboxIdle /\ IdIdle /\ FetchIdle /\ LockIdle /\ CleanupIdle
  /\ prompt_response \in [category : Answers, confidence : Confidences, from : Froms]
  /\ email_confidence_threshold \in Confidences
  /\ category_content = "none"
  /\ email_category = "none"

NextGate == email_category_of_response

SpecGate == InitGate /\ [][NextGate]_vars

\* ------------------------------------------------------------------------
\* email/processor/email_processor.rs : parse_id_to_int, parse_int_to_id
\* ------------------------------------------------------------------------
\* the digits "{:x}" writes, by value
LowerDigits ==
  <<"0", "1", "2", "3", "4", "5", "6", "7", "8", "9", "a", "b", "c", "d", "e", "f">>

\* the digits "{:X}" writes, by value
UpperDigits ==
  <<"0", "1", "2", "3", "4", "5", "6", "7", "8", "9", "A", "B", "C", "D", "E", "F">>

\* the characters char::to_digit(16) accepts
HexChars == {LowerDigits[i] : i \in 1..16} \cup {UpperDigits[i] : i \in 1..16}

\* char::to_digit(16)
to_digit(c) ==
  CHOOSE v \in 0..15 : LowerDigits[v + 1] = c \/ UpperDigits[v + 1] = c

\* the largest value of the integer type
IdMax == 2^IdBits - 1

\* the ids the model converts: strings of hexadecimal digits, the empty one too
IdStrings == UNION {[1..len -> HexChars] : len \in 0..MaxIdLen}

\* the digits of s as a number, without a limit
RECURSIVE digits_value(_)
digits_value(s) ==
  IF s = <<>> THEN 0
  ELSE digits_value(SubSeq(s, 1, Len(s) - 1)) * 16 + to_digit(s[Len(s)])

\* from_str_radix(&id, 16) is an Err for the empty string and for a value the
\* type cannot hold
from_str_radix_ok(s) == s # <<>> /\ digits_value(s) <= IdMax

\* parse_id_to_int: from_str_radix(&id, 16).expect(..), for an id it accepts
parse_id_to_int(id) == digits_value(id)

\* format!("{:X}", id)
RECURSIVE parse_int_to_id_upper(_)
parse_int_to_id_upper(id) ==
  IF id < 16 THEN <<UpperDigits[id + 1]>>
  ELSE parse_int_to_id_upper(id \div 16) \o <<UpperDigits[(id % 16) + 1]>>

\* parse_int_to_id: format!("{:x}", id)
RECURSIVE parse_int_to_id(_)
parse_int_to_id(id) ==
  IF id < 16 THEN <<LowerDigits[id + 1]>>
  ELSE parse_int_to_id(id \div 16) \o <<LowerDigits[(id % 16) + 1]>>

\* parse_id_to_int(parse_int_to_id(n))
int_round_trip ==
  /\ id_input.kind = "int" /\ id_output = NoId
  /\ LET id == parse_int_to_id(id_input.n)
     IN id_output' =
          IF from_str_radix_ok(id)
            THEN [kind |-> "int", n |-> parse_id_to_int(id), s |-> <<>>]
            ELSE [kind |-> "panic", n |-> 0, s |-> <<>>]
  /\ UNCHANGED id_input
  /\ UNCHANGED <<queueVars, mapVars, procVars, runVars, limVars, idOthers>>

\* parse_int_to_id(parse_id_to_int(s)); expect panics on an Err
id_round_trip ==
  /\ id_input.kind = "id" /\ id_output = NoId
  /\ id_output' =
       IF from_str_radix_ok(id_input.s)
         THEN [kind |-> "id", n |-> 0, s |-> parse_int_to_id(parse_id_to_int(id_input.s))]
         ELSE [kind |-> "panic", n |-> 0, s |-> <<>>]
  /\ UNCHANGED id_input
  /\ UNCHANGED <<queueVars, mapVars, procVars, runVars, limVars, idOthers>>

InitId ==
  /\ QueueIdle /\ MapIdle /\ ProcIdle /\ RunIdle /\ LimitIdle
  /\ PromptIdle /\ PoolIdle /\ TokenIdle /\ LabelIdle /\ MailboxIdle /\ GateIdle /\ FetchIdle /\ LockIdle /\ CleanupIdle
  /\ \/ \E n \in 0..IdMax : id_input = [kind |-> "int", n |-> n, s |-> <<>>]
     \/ \E s \in IdStrings : id_input = [kind |-> "id", n |-> 0, s |-> s]
  /\ id_output = NoId

NextId == int_round_trip \/ id_round_trip

SpecId == InitId /\ [][NextId]_vars

\* ------------------------------------------------------------------------
\* email/processor/email_processor.rs : fetch_email_ids inside the ticks of
\* run(), beside the worker tasks that classify the messages
\* ------------------------------------------------------------------------
fetchUnchanged == <<mapVars, limVars, fetchOthers>>

\* fetch_email_ids, first await: the ids of the user's processed_email rows;
\* an error of the query ends the call, which fails the processor for the
\* recent emails and is logged for the older ones
fetch_processed_ids ==
  /\ run_pc \in {"queue_recent_emails", "queue_older_emails"}
  /\ \/ /\ already_processed_ids' = {id \in MsgIds : processed_email[id] > 0}
        /\ run_pc' = IF run_pc = "queue_recent_emails" THEN "list_recent" ELSE "list_older"
        /\ UNCHANGED failed
     \/ /\ run_pc = "queue_recent_emails"
        /\ run_pc' = "done" /\ failed' = TRUE
        /\ UNCHANGED already_processed_ids
     \/ /\ run_pc = "queue_older_emails"
        /\ run_pc' = "tick"
        /\ UNCHANGED <<already_processed_ids, failed>>
  /\ UNCHANGED <<run_ids, num_added, prompt_sent, procUnchangedByRun, queueVars, fetchUnchanged>>

\* fetch_email_ids, the pages of get_message_list: the listed ids that are not
\* among already_processed_ids; a page that fails to load ends the listing
\* with what was collected
fetch_message_list ==
  /\ run_pc \in {"list_recent", "list_older"}
  /\ \E listed \in SUBSET MsgIds :
       run_ids' = listed \ already_processed_ids
  /\ num_added' = 0
  /\ run_pc' = IF run_pc = "list_recent" THEN "push_recent" ELSE "push_older"
  /\ UNCHANGED <<already_processed_ids, prompt_sent, failed, procUnchangedByRun, queueVars,
                 fetchUnchanged>>

\* processor.process_email(email_id, priority).await of a worker task: the
\* message is dropped, or its classification fails with or without the
\* prompt being sent, or it is classified and its processed_email row inserted
task_process_email(w) ==
  /\ task_pc[w] = "process_email"
  /\ LET id == task_entry[w].email_id
     IN \/ UNCHANGED <<prompt_sent, processed_email>>
        \/ /\ prompt_sent[id] < MaxSent
           /\ prompt_sent' = [prompt_sent EXCEPT ![id] = @ + 1]
           /\ \/ UNCHANGED processed_email
              \/ insert_processed_email(id)
  /\ task_pc' = [task_pc EXCEPT ![w] = "remove_from_processing"]
  /\ UNCHANGED <<queue, num_in_queue_by_email_address, in_processing_set, push_ret,
                 task_entry, processor_map, token_count, cancelled, failed,
                 processed_email_count, failed_email_count, usage_row, call, call_ret,
                 calls_made, start_usage, tokens_ok, tokens_charged,
                 already_processed_ids, runVars, fetchUnchanged>>

\* prompt_priority_queue.remove_from_processing(email_id) of a worker task
task_remove_from_processing(w) ==
  /\ task_pc[w] = "remove_from_processing"
  /\ remove_from_processing(task_entry[w].email_id)
  /\ task_pc' = [task_pc EXCEPT ![w] = "pop"]
  /\ task_entry' = [task_entry EXCEPT ![w] = NoEntry]
  /\ UNCHANGED <<queue, num_in_queue_by_email_address, push_ret, processor_map,
                 procVars, runVars, fetchVars, fetchUnchanged>>

InitFetch ==
  /\ queue = EmptyBag
  /\ num_in_queue_by_email_address = [e \in Emails |-> NoCount]
  /\ in_processing_set = {}
  /\ push_ret = NoCall
  /\ task_pc = [w \in Workers |-> "pop"]
  /\ task_entry = [w \in Workers |-> NoEntry]
  /\ processor_map = {RunEmail}
  /\ MapIdle
  /\ NewProcessor(NoRow)
  /\ run_pc = "configure_labels_if_needed"
  /\ run_ids = {}
  /\ num_added = 0
  /\ LimitIdle
  /\ PromptIdle /\ PoolIdle /\ TokenIdle /\ LabelIdle /\ MailboxIdle /\ GateIdle /\ IdIdle /\ LockIdle /\ CleanupIdle
  /\ already_processed_ids = {}
  /\ prompt_sent = [id \in MsgIds |-> 0]

NextFetch ==
  \/ run_configure_labels
  \/ run_tick
  \/ fetch_processed_ids
  \/ fetch_message_list
  \/ \E id \in MsgIds : push_recent(id)
  \/ recent_queued
  \/ \E id \in MsgIds : push_older(id)
  \/ older_queued
  \/ \E w \in RunWorkers : task_pop(w)
  \/ \E w \in RunWorkers : task_get(w)
  \/ \E w \in RunWorkers : task_process_email(w)
  \/ \E w \in RunWorkers : task_remove_from_processing(w)

SpecFetch == InitFetch /\ [][NextFetch]_vars

\* ------------------------------------------------------------------------
\* prompt/priority_queue.rs : the locks taken by push, pop,
\* remove_from_processing and the queries
\* ------------------------------------------------------------------------
Lockers == 1..NumLockers

\* the ids the threads push and remove
LockMsgIds == {1, 2}

\* no push is started on a heap of this size
LockHeap == 1

lockUnchanged == <<mapVars, procVars, runVars, limVars, lockOthers>>

queueUnchangedByLocks == <<task_pc, task_entry, processor_map>>

queueData == <<queue, num_in_queue_by_email_address, in_processing_set, push_ret>>

\* a thread enters one of the methods
lock_enter(t, op, pc, email_id, priority) ==
  /\ lock_call[t] = NoLockCall
  /\ lock_call' = [lock_call EXCEPT ![t] = [op |-> op, pc |-> pc, email_id |-> email_id,
                                             priority |-> priority]]
  /\ UNCHANGED <<queue_mutex, counter_rwlock, set_mutex, queueData, queueUnchangedByLocks,
                 lockUnchanged>>

call_push(t, email_id, priority) ==
  /\ BagCardinality(queue) < LockHeap
  /\ lock_enter(t, "push", "queue.lock", email_id, priority)

call_pop(t) == lock_enter(t, "pop", "queue.lock", 0, "None")

call_remove_from_processing(t, email_id) ==
  lock_enter(t, "remove_from_processing", "in_processing_set.lock", email_id, "None")

\* num_in_queue, num_high_priority_in_queue, num_low_priority_in_queue,
\* all_high_priority, len
call_num_in_queue(t) == lock_enter(t, "num_in_queue", "read", 0, "None")

call_num_in_processing(t) ==
  lock_enter(t, "num_in_processing", "in_processing_set.lock", 0, "None")

\* self.queue.lock().unwrap() of push and pop
lock_queue(t) ==
  /\ lock_call[t].pc = "queue.lock"
  /\ queue_mutex = 0
  /\ queue_mutex' = t
  /\ lock_call' = [lock_call EXCEPT ![t].pc = IF lock_call[t].op = "push"
                                                THEN "write" ELSE "queue.pop"]
  /\ UNCHANGED <<counter_rwlock, set_mutex, queueData, queueUnchangedByLocks, lockUnchanged>>

\* push: self.num_in_queue_by_email_address.write().unwrap()
push_write(t) ==
  /\ lock_call[t].op = "push" /\ lock_call[t].pc = "write"
  /\ counter_rwlock = [writer |-> 0, readers |-> {}]
  /\ counter_rwlock' = [writer |-> t, readers |-> {}]
  /\ lock_call' = [lock_call EXCEPT ![t].pc = "in_processing_set.lock"]
  /\ UNCHANGED <<queue_mutex, set_mutex, queueData, queueUnchangedByLocks, lockUnchanged>>

\* push: self.in_processing_set.lock().unwrap()
push_lock_set(t) ==
  /\ lock_call[t].op = "push" /\ lock_call[t].pc = "in_processing_set.lock"
  /\ set_mutex = 0
  /\ set_mutex' = t
  /\ lock_call' = [lock_call EXCEPT ![t].pc = "insert"]
  /\ UNCHANGED <<queue_mutex, counter_rwlock, queueData, queueUnchangedByLocks, lockUnchanged>>

\* push with its three guards: the body, and the guards dropped at the return
push_body(t) ==
  /\ lock_call[t].op = "push" /\ lock_call[t].pc = "insert"
  /\ push(RunEmail, lock_call[t].email_id, lock_call[t].priority)
  /\ queue_mutex' = 0
  /\ counter_rwlock' = [writer |-> 0, readers |-> {}]
  /\ set_mutex' = 0
  /\ lock_call' = [lock_call EXCEPT ![t] = NoLockCall]
  /\ UNCHANGED <<queueUnchangedByLocks, lockUnchanged>>

\* pop: queue.pop() of an empty heap, and the guard dropped at the return
pop_none(t) ==
  /\ lock_call[t].op = "pop" /\ lock_call[t].pc = "queue.pop"
  /\ queue = EmptyBag
  /\ queue_mutex' = 0
  /\ lock_call' = [lock_call EXCEPT ![t] = NoLockCall]
  /\ UNCHANGED <<counter_rwlock, set_mutex, queueData, queueUnchangedByLocks, lockUnchanged>>

\* pop: queue.pop() is Some(entry)
pop_some(t) ==
  /\ lock_call[t].op = "pop" /\ lock_call[t].pc = "queue.pop"
  /\ queue # EmptyBag
  /\ lock_call' = [lock_call EXCEPT ![t].pc = "write"]
  /\ UNCHANGED <<queue_mutex, counter_rwlock, set_mutex, queueData, queueUnchangedByLocks,
                 lockUnchanged>>

\* pop: self.num_in_queue_by_email_address.write().unwrap(), the counters
\* of the entry, and the two guards dropped at the return
pop_write(t) ==
  /\ lock_call[t].op = "pop" /\ lock_call[t].pc = "write"
  /\ counter_rwlock = [writer |-> 0, readers |-> {}]
  /\ \E entry \in BagToSet(queue) : pop(entry)
  /\ queue_mutex' = 0
  /\ lock_call' = [lock_call EXCEPT ![t] = NoLockCall]
  /\ UNCHANGED <<counter_rwlock, set_mutex, push_ret, queueUnchangedByLocks, lockUnchanged>>

\* a remove_from_processing that locks the heap after the set
lock_set_then_queue(t) ==
  /\ lock_call[t].pc = "in_processing_set.lock"
  /\ lock_call[t].op \in {"remove_from_processing", "num_in_processing"}
  /\ set_mutex = 0
  /\ set_mutex' = t
  /\ lock_call' = [lock_call EXCEPT ![t].pc = "queue.lock", ![t].op = "pop"]
  /\ UNCHANGED <<queue_mutex, counter_rwlock, queueData, queueUnchangedByLocks, lockUnchanged>>

\* self.in_processing_set.lock().unwrap() of remove_from_processing and of
\* num_in_processing
lock_set(t) ==
  /\ lock_call[t].pc = "in_processing_set.lock"
  /\ lock_call[t].op \in {"remove_from_processing", "num_in_processing"}
  /\ set_mutex = 0
  /\ set_mutex' = t
  /\ lock_call' = [lock_call EXCEPT ![t].pc = "locked"]
  /\ UNCHANGED <<queue_mutex, counter_rwlock, queueData, queueUnchangedByLocks, lockUnchanged>>

\* remove_from_processing: in_processing_set.remove(&email_id), guard dropped
remove_body(t) ==
  /\ lock_call[t].op = "remove_from_processing" /\ lock_call[t].pc = "locked"
  /\ remove_from_processing(lock_call[t].email_id)
  /\ set_mutex' = 0
  /\ lock_call' = [lock_call EXCEPT ![t] = NoLockCall]
  /\ UNCHANGED <<queue_mutex, counter_rwlock, queue, num_in_queue_by_email_address, push_ret,
                 queueUnchangedByLocks, lockUnchanged>>

\* num_in_processing: .len(), guard dropped
num_in_processing_body(t) ==
  /\ lock_call[t].op = "num_in_processing" /\ lock_call[t].pc = "locked"
  /\ set_mutex' = 0
  /\ lock_call' = [lock_call EXCEPT ![t] = NoLockCall]
  /\ UNCHANGED <<queue_mutex, counter_rwlock, queueData, queueUnchangedByLocks, lockUnchanged>>

\* the queries on the counters: .read().unwrap()
counter_read(t) ==
  /\ lock_call[t].op = "num_in_queue" /\ lock_call[t].pc = "read"
  /\ counter_rwlock.writer = 0
  /\ counter_rwlock' = [counter_rwlock EXCEPT !.readers = @ \cup {t}]
  /\ lock_call' = [lock_call EXCEPT ![t].pc = "locked"]
  /\ UNCHANGED <<queue_mutex, set_mutex, queueData, queueUnchangedByLocks, lockUnchanged>>

\* the queries on the counters: the value, guard dropped
counter_read_body(t) ==
  /\ lock_call[t].op = "num_in_queue" /\ lock_call[t].pc = "locked"
  /\ counter_rwlock' = [counter_rwlock EXCEPT !.readers = @ \ {t}]
  /\ lock_call' = [lock_call EXCEPT ![t] = NoLockCall]
  /\ UNCHANGED <<queue_mutex, set_mutex, queueData, queueUnchangedByLocks, lockUnchanged>>

InitLock ==
  /\ NewQueue /\ MapIdle /\ ProcIdle /\ RunIdle /\ LimitIdle
  /\ PromptIdle /\ PoolIdle /\ TokenIdle /\ LabelIdle /\ MailboxIdle /\ GateIdle /\ IdIdle /\ FetchIdle /\ CleanupIdle
  /\ queue_mutex = 0 /\ set_mutex = 0
  /\ counter_rwlock = [writer |-> 0, readers |-> {}]
  /\ lock_call = [t \in Lockers |-> NoLockCall]

NextLock ==
  \E t \in Lockers :
    \/ \E id \in LockMsgIds, priority \in Priority : call_push(t, id, priority)
    \/ call_pop(t)
    \/ \E id \in LockMsgIds : call_remove_from_processing(t, id)
    \/ call_num_in_queue(t)
    \/ call_num_in_processing(t)
    \/ lock_queue(t)
    \/ push_write(t)
    \/ push_lock_set(t)
    \/ push_body(t)
    \/ pop_none(t)
    \/ pop_some(t)
    \/ pop_write(t)
    \/ lock_set(t)
    \/ remove_body(t)
    \/ num_in_processing_body(t)
    \/ counter_read(t)
    \/ counter_read_body(t)

SpecLock == InitLock /\ [][NextLock]_vars

\* ------------------------------------------------------------------------
\* email/tasks.rs : run_auto_email_cleanup
\* ------------------------------------------------------------------------
CleanupUsers == 1..NumCleanupUsers

CleanupIds == 1..NumCleanupIds

\* (0..5): the tasks spawned for one setting
NumCleanupThreads == 5

CleanupThreads == 1..NumCleanupThreads

CleanupActions == {"Nothing", "Delete", "Archive"}

\* the candidate lists a setting's query can return, in the order of the rows
CandidateLists == {[i \in 1..n |-> i] : n \in 1..NumCleanupIds}

\* the id sets the keep listing can return
KeepListings == {1..n : n \in 0..NumKeepIds}

SeqRange(seq) == {seq[i] : i \in DOMAIN seq}

NoCalls == [trash |-> 0, archive |-> 0]

cleanupUnchanged == <<queueVars, mapVars, procVars, runVars, limVars, cleanupOthers>>

drainVars == <<cleanup_queue, thread_pc, thread_email, cleanup_calls, failed_calls>>

\* all_active_user_cleanup_settings and the fold by user_id; an error of the
\* query ends the run
cleanup_settings_by_user ==
  /\ cleanup_pc = "all_active_user_cleanup_settings"
  /\ \/ \E users \in SUBSET CleanupUsers :
          /\ cleanup_todo' = users
          /\ cleanup_pc' = "for"
     \/ /\ cleanup_pc' = "err"
        /\ UNCHANGED cleanup_todo
  /\ UNCHANGED <<keep_ids, settings_todo, cleanup_setting, emails_to_cleanup,
                 drainVars, cleanupUnchanged>>

\* for (user_id, settings) in user_to_cleanup_settings: the next user of the
\* HashMap with the number of its settings, or the end of the loop and Ok(())
cleanup_next_user ==
  /\ cleanup_pc = "for"
  /\ IF cleanup_todo = {}
       THEN /\ cleanup_pc' = "ok"
            /\ UNCHANGED <<cleanup_todo, settings_todo>>
       ELSE \E user_id \in cleanup_todo, settings \in 1..MaxSettings :
              /\ cleanup_todo' = cleanup_todo \ {user_id}
              /\ settings_todo' = settings
              /\ cleanup_pc' = "get_email_client"
  /\ keep_ids' = {}
  /\ emails_to_cleanup' = <<>>
  /\ cleanup_setting' = "none"
  /\ UNCHANGED <<drainVars, cleanupUnchanged>>

\* get_email_client: its error is logged and the loop continues
cleanup_get_email_client ==
  /\ cleanup_pc = "get_email_client"
  /\ \/ cleanup_pc' = "get_all_message_ids_with_keep_label"
     \/ cleanup_pc' = "for"
  /\ UNCHANGED <<cleanup_todo, keep_ids, settings_todo, cleanup_setting,
                 emails_to_cleanup, drainVars, cleanupUnchanged>>

\* get_all_message_ids_with_keep_label(..).await?: the ids of the listing, or
\* the error of a page returned by run_auto_email_cleanup
get_all_message_ids_with_keep_label ==
  /\ cleanup_pc = "get_all_message_ids_with_keep_label"
  /\ \/ \E listed \in KeepListings :
          /\ keep_ids' = listed
          /\ cleanup_pc' = "for setting"
     \/ /\ cleanup_pc' = "err"
        /\ UNCHANGED keep_ids
  /\ UNCHANGED <<cleanup_todo, settings_todo, cleanup_setting,
                 emails_to_cleanup, drainVars, cleanupUnchanged>>

\* the queue of a setting built without the filter on keep_ids
queue_of_all(emails, keep) == emails

\* emails_to_cleanup.into_iter().filter(|email| !keep_ids.contains(&email.id))
queue_of(emails, keep) == SelectSeq(emails, LAMBDA email : email \notin keep)

\* for setting in settings: the end of the user's settings; or the next
\* setting, whose candidates cannot be read or are none, which skips it, or
\* are queued for 5 spawned tasks
cleanup_next_setting ==
  /\ cleanup_pc = "for setting"
  /\ IF settings_todo = 0
       THEN /\ cleanup_pc' = "for"
            /\ UNCHANGED <<settings_todo, cleanup_setting, emails_to_cleanup, drainVars>>
       ELSE /\ settings_todo' = settings_todo - 1
            /\ cleanup_setting' \in CleanupActions
            /\ \/ /\ emails_to_cleanup' = <<>>
                  /\ cleanup_pc' = "for setting"
                  /\ UNCHANGED drainVars
               \/ \E emails \in CandidateLists :
                    /\ emails_to_cleanup' = emails
                    /\ cleanup_queue' = queue_of(emails, keep_ids)
                    /\ thread_pc' = [t \in CleanupThreads |-> "next"]
                    /\ thread_email' = [t \in CleanupThreads |-> 0]
                    /\ cleanup_calls' = [id \in CleanupIds |-> NoCalls]
                    /\ failed_calls' = FALSE
                    /\ cleanup_pc' = "join_all"
  /\ UNCHANGED <<cleanup_todo, keep_ids, cleanupUnchanged>>

\* a task: next() is queue.lock().unwrap().pop(); None ends the task
thread_next(t) ==
  /\ cleanup_pc = "join_all"
  /\ thread_pc[t] = "next"
  /\ IF cleanup_queue = <<>>
       THEN /\ thread_pc' = [thread_pc EXCEPT ![t] = "done"]
            /\ UNCHANGED <<cleanup_queue, thread_email>>
       ELSE /\ cleanup_queue' = SubSeq(cleanup_queue, 1, Len(cleanup_queue) - 1)
            /\ thread_email' = [thread_email EXCEPT ![t] = cleanup_queue[Len(cleanup_queue)]]
            /\ thread_pc' = [thread_pc EXCEPT ![t] = "match"]
  /\ UNCHANGED <<cleanup_pc, cleanup_todo, keep_ids, settings_todo,
                 cleanup_setting, emails_to_cleanup, cleanup_calls, failed_calls,
                 cleanupUnchanged>>

\* a task: match setting.cleanup_action on the email it popped; an error of
\* trash_email or archive_email is logged
thread_match(t) ==
  /\ cleanup_pc = "join_all"
  /\ thread_pc[t] = "match"
  /\ LET email == thread_email[t]
     IN CASE cleanup_setting = "Delete" ->
               /\ cleanup_calls' = [cleanup_calls EXCEPT ![email].trash = @ + 1]
               /\ failed_calls' \in {failed_calls, TRUE}
          [] cleanup_setting = "Archive" ->
               /\ cleanup_calls' = [cleanup_calls EXCEPT ![email].archive = @ + 1]
               /\ failed_calls' \in {failed_calls, TRUE}
          [] OTHER -> UNCHANGED <<cleanup_calls, failed_calls>>
  /\ thread_email' = [thread_email EXCEPT ![t] = 0]
  /\ thread_pc' = [thread_pc EXCEPT ![t] = "next"]
  /\ UNCHANGED <<cleanup_pc, cleanup_todo, keep_ids, settings_todo,
                 cleanup_setting, emails_to_cleanup, cleanup_queue, cleanupUnchanged>>

\* threads.join_all().await returns
cleanup_join_all ==
  /\ cleanup_pc = "join_all"
  /\ \A t \in CleanupThreads : thread_pc[t] = "done"
  /\ cleanup_pc' = "for setting"
  /\ UNCHANGED <<cleanup_todo, keep_ids, settings_todo, cleanup_setting,
                 emails_to_cleanup, drainVars, cleanupUnchanged>>

InitCleanup ==
  /\ QueueIdle /\ MapIdle /\ ProcIdle /\ RunIdle /\ LimitIdle
  /\ PromptIdle /\ PoolIdle /\ TokenIdle /\ LabelIdle /\ MailboxIdle /\ GateIdle /\ IdIdle /\ FetchIdle /\ LockIdle
  /\ cleanup_pc = "all_active_user_cleanup_settings"
  /\ cleanup_todo = {} /\ keep_ids = {}
  /\ settings_todo = 0 /\ cleanup_setting = "none" /\ emails_to_cleanup = <<>>
  /\ cleanup_queue = <<>>
  /\ thread_pc = [t \in CleanupThreads |-> "done"]
  /\ thread_email = [t \in CleanupThreads |-> 0]
  /\ cleanup_calls = [id \in CleanupIds |-> NoCalls]
  /\ failed_calls = FALSE

NextCleanup ==
  \/ cleanup_settings_by_user
  \/ cleanup_next_user
  \/ cleanup_get_email_client
  \/ get_all_message_ids_with_keep_label
  \/ cleanup_next_setting
  \/ \E t \in CleanupThreads : thread_next(t)
  \/ \E t \in CleanupThreads : thread_match(t)
  \/ cleanup_join_all

SpecCleanup == InitCleanup /\ [][NextCleanup]_vars

\* C11: after all in-flight work has drained, the in-memory token_count
\* equals tokens_consumed of today's usage row.
TokenCountEqualsTally ==
  Drained => token_count = get_usage_today

\* C12: after all in-flight work has drained, tokens_consumed of today's
\* usage row equals its starting value plus the token counts returned by all
\* classification calls, whatever became of the steps after a classification.
TallyEqualsTokensClassified ==
  Drained => get_usage_today = start_usage + tokens_charged

\* worker w leaves parse_and_prompt_email in this step
ParseStep(w) ==
  call[w].pc = "parse_and_prompt_email" /\ call'[w].pc # "parse_and_prompt_email"

\* C13: no message id ever has more than one processed_email row, and a call
\* whose insert hits the unique violation is completed as a success: the
\* processed count is raised, its tokens are tallied, and the processor is
\* not marked failed.
AtMostOneProcessedEmailRow ==
  /\ [](\A id \in MsgIds : processed_email[id] <= 1)
  /\ [][\A w \in Workers :
          (ParseStep(w) /\ call_ret' = "unique_violation")
            => /\ processed_email[call[w].id] = 1
               /\ UNCHANGED <<processed_email, failed, failed_email_count>>
               /\ processed_email_count' = processed_email_count + 1
               /\ token_count' - token_count = tokens_charged' - tokens_charged
               /\ tokens_ok' - tokens_ok = tokens_charged' - tokens_charged
               /\ (tokens_charged' # tokens_charged)
                    => call'[w].pc = "add_to_daily_quota"]_vars

\* a message was processed twice: the second insert hit the unique violation
\* and the call counted as processed
WitnessAtMostOneProcessedEmailRow ==
  /\ call_ret = "unique_violation"
  /\ ~failed
  /\ processed_email_count = 2
  /\ \E id \in MsgIds : processed_email[id] = 1
  /\ Drained

\* C14: when the processed_email insert fails with a database error other
\* than the unique violation, the processor is marked failed.
OtherInsertErrorFailsProcessor ==
  [][\A w \in Workers : (ParseStep(w) /\ call_ret' = "db_err") => failed']_vars

LowPriorityReserve ==
  [][( /\ calls_made' = calls_made + 1
       /\ ~cancelled /\ ~failed /\ token_count < DAILY_QUOTA
       /\ DAILY_QUOTA - token_count < 100000 )
     => \/ \E w \in Workers :
             /\ call[w].pc = "idle"
             /\ call'[w].pc = "run_email_processes"
             /\ call'[w].priority = "High"
        \/ /\ call_ret' = "reserved"
           /\ UNCHANGED <<call, token_count, usage_row, processed_email,
                          processed_email_count, failed_email_count,
                          tokens_charged, tokens_ok>>]_vars

\* with less than 100 000 tokens left, a Low call was turned away while a
\* High call is on its way to the classifier
WitnessLowPriorityReserve ==
  /\ call_ret = "reserved"
  /\ token_count < DAILY_QUOTA
  /\ DAILY_QUOTA - token_count < 100000
  /\ \E w \in Workers :
       call[w].pc = "run_email_processes" /\ call[w].priority = "High"

\* an entry was added to the heap
Enqueued(priority) ==
  \E e \in BagToSet(queue') :
    e.priority = priority /\ CopiesIn(e, queue') > CopiesIn(e, queue)

\* the processor is cancelled, failed or at its daily quota
RunMustExit == is_cancelled \/ is_failed \/ token_count >= DAILY_QUOTA

OlderOnlyWhenIdleAndUnderHalf ==
  [][/\ (run_pc = "tick" /\ num_high_priority_in_queue(RunEmail) > 0) =>
          /\ run_pc' \in {"tick", "done"}
          /\ ~Enqueued("High") /\ ~Enqueued("Low")
          /\ push_ret' = push_ret
     /\ Enqueued("High") => run_pc = "push_recent"
     /\ Enqueued("Low") => run_pc = "push_older"
     /\ (run_pc' = "queue_recent_emails" /\ run_pc # "queue_recent_emails") =>
          run_pc = "tick"
     /\ (run_pc' = "push_recent" /\ run_pc # "push_recent") =>
          run_pc = "queue_recent_emails"
     /\ (run_pc' = "queue_older_emails" /\ run_pc # "queue_older_emails") =>
          /\ run_pc = "push_recent"
          /\ num_added = 0
          /\ token_count < DAILY_QUOTA \div 2
     /\ (run_pc' = "push_older" /\ run_pc # "push_older") =>
          run_pc = "queue_older_emails"]_vars

\* a Low entry is in the heap while the token count has since passed half of
\* the quota
WitnessOlderOnlyWhenIdleAndUnderHalf ==
  /\ \E e \in BagToSet(queue) : e.priority = "Low" /\ e.user_email = RunEmail
  /\ token_count >= DAILY_QUOTA \div 2
  /\ run_pc = "tick"

\* the number of heap entries of an email with a priority
HeapCount(email, priority) ==
  LET entries == {e \in BagToSet(queue) :
                    e.user_email = email /\ e.priority = priority}
  IN BagCardinality([e \in entries |-> CopiesIn(e, queue)])

\* C19: after any sequence of push and pop calls, for every email
\* num_high_priority_in_queue is the number of its High entries in the heap,
\* num_low_priority_in_queue the number of its Low entries and num_in_queue
\* their sum; no counter has been decremented below zero (wrapped).
CountersMatchHeap ==
  \A email \in Emails :
    /\ num_high_priority_in_queue(email) = HeapCount(email, "High")
    /\ num_low_priority_in_queue(email) = HeapCount(email, "Low")
    /\ num_in_queue(email) = HeapCount(email, "High") + HeapCount(email, "Low")
    /\ num_in_queue_by_email_address[email] # NoCount =>
         /\ num_in_queue_by_email_address[email].high_priority \in 0..MaxHeap
         /\ num_in_queue_by_email_address[email].low_priority \in 0..MaxHeap

\* the counters of one email went back to zero by pops while another email
\* has a High and a Low entry in the heap
WitnessCountersMatchHeap ==
  \E email, other \in Emails :
    /\ num_in_queue_by_email_address[email] # NoCount
    /\ num_in_queue(email) = 0
    /\ num_high_priority_in_queue(other) >= 1
    /\ num_low_priority_in_queue(other) >= 1

\* C20: while the back-off flag is set no acquire_one call takes a token of
\* the bucket.
NoTokenTakenInBackoff ==
  [][backoff => balance' >= balance]_vars

\* a step of trigger_backoff: one more timer task
TriggerStep == BagCardinality(timers') > BagCardinality(timers)

\* C21: trigger_backoff called while the flag is set leaves it set; only
\* trigger_backoff sets the flag, so a cleared flag stays clear until the next
\* call; and a set flag is eventually cleared by one of the spawned timers.
TriggerBackoffSelfClearing ==
  /\ [][/\ (backoff /\ TriggerStep) => backoff'
        /\ (~backoff /\ backoff') => TriggerStep]_vars
  /\ (backoff ~> ~backoff)
  /\ [](backoff => timers # EmptyBag)

\* trigger_backoff was called again while the flag was set: two timers are
\* pending
WitnessTriggerBackoffSelfClearing ==
  /\ backoff
  /\ BagCardinality(timers) = 2
  /\ Cardinality(BagToSet(timers)) = 2

\* C22: a send_category_prompt call that fails with TooManyRequests, or that
\* gets the error message "Requests rate limit exceeded", leaves the back-off
\* flag set and returns an error and no category.
RateLimitSignalsBackoff ==
  [][(/\ prompt_calls' = prompt_calls + 1
      /\ \/ prompt_ret'.err = "TooManyRequests"
         \/ prompt_ret'.message = "Requests rate limit exceeded")
       => /\ backoff'
          /\ prompt_ret'.err # "none"
          /\ prompt_ret'.category = "none"]_vars

\* C23: when a worker task of the pool has exited, the supervisor eventually
\* brings the pool back to max_threads running worker tasks.
PoolRestored ==
  (\E w \in Workers : task_pc[w] = "exited")
    ~> (\A w \in Workers : task_pc[w] # "exited")

\* the refresh-and-persist step of a task is in progress
Refreshing(t) ==
  token_call[t].pc \in {"exchange_refresh_token", "update_account_access"}

\* C24: at most one token refresh of the user is in progress at any instant.
OneRefreshAtATime ==
  \A t, u \in Tasks : (Refreshing(t) /\ Refreshing(u)) => t = u

\* C25: the helper returns the access token in plaintext: for a token that has
\* not expired the decryption of the stored token, with no refresh call and
\* no write; else the refreshed token, the row written being the encryption
\* of that token with the new expires_at; and a failed call writes nothing.
ReturnsPlaintextToken ==
  \A t \in Tasks :
    LET c == token_call[t] IN
    c.pc = "done" =>
      /\ c.ok => IsPlain(c.ret)
      /\ (c.ok /\ ~c.expired) =>
           /\ c.ret = decrypt(c.access_token)
           /\ c.resp = NoToken
           /\ c.wrote = NoRow_account_access
      /\ (c.ok /\ c.expired) =>
           /\ c.ret = c.resp
           /\ c.wrote.access_token = encrypt(c.resp)
           /\ c.wrote.expires_at > c.expires_at
      /\ ~c.ok => c.wrote = NoRow_account_access

\* C26: for every set of current labels and every category the update adds
\* the category's provider categories, the id of its mail label and IMPORTANT
\* when flagged; it removes exactly the current CATEGORY_* labels that are not
\* among the category's provider categories, no other label, and nothing when
\* the category has no provider categories.
LabelUpdateAddsAndRemoves ==
  [][label_updates' = label_updates + 1 =>
       LET category == label_category'
           add == label_update'.addLabelIds
           remove == label_update'.removeLabelIds
       IN /\ category.gmail_categories \subseteq add
          /\ MailLabelId \in add
          /\ category.important => "IMPORTANT" \in add
          /\ remove \subseteq ProviderCategories
          /\ category.gmail_categories # {} =>
               remove = (message_labels \cap ProviderCategories)
                          \ category.gmail_categories
          /\ category.gmail_categories = {} => remove = {}]_vars

\* C28: a second label update for the same category, computed on the labels
\* that the first one left, removes nothing and leaves the message's labels
\* as they are.
LabelUpdateIdempotent ==
  [][(/\ label_updates' = label_updates + 1
      /\ label_updates >= 1
      /\ label_category' = label_category)
       => /\ label_update'.removeLabelIds = {}
          /\ message_labels' = message_labels]_vars

\* the second update of a message for one category, the first having removed
\* a provider category
WitnessLabelUpdateIdempotent ==
  /\ label_updates = 2
  /\ label_update.removeLabelIds = {}
  /\ "CATEGORY_PROMOTIONS" \in message_labels
  /\ "CATEGORY_SOCIAL" \notin message_labels
  /\ label_category.gmail_categories = {"CATEGORY_PROMOTIONS"}

\* C27: a configure_labels_if_needed call that follows a call in which every
\* label creation succeeded, on the mailbox as that call left it, returns
\* false and creates no label.
ConfigureLabelsConverges ==
  [][(/\ configure_calls' = configure_calls + 1
      /\ configure_calls >= 1
      /\ all_created)
       => /\ configure_ret' = FALSE
          /\ mailbox_labels' = mailbox_labels]_vars

\* C29: the category content is "Unknown" whenever the model's confidence is
\* below the configured threshold, and also when it equals the threshold.
UnknownAtOrBelowThreshold ==
  (/\ category_content # "none"
   /\ prompt_response.confidence <= email_confidence_threshold)
    => category_content = "Unknown"

\* C29, amended: the category content is "Unknown" whenever the confidence is
\* below the threshold, and the model's answer whenever the confidence is the
\* threshold or above it.
UnknownBelowThreshold ==
  category_content # "none" =>
    /\ prompt_response.confidence < email_confidence_threshold
         => category_content = "Unknown"
    /\ prompt_response.confidence >= email_confidence_threshold
         => category_content = prompt_response.category

\* a configured answer at exactly the threshold was kept, and an answer
\* below a threshold would have been overridden
WitnessUnknownBelowThreshold ==
  /\ category_content = "Ads"
  /\ prompt_response.confidence = email_confidence_threshold
  /\ email_confidence_threshold > 0
  /\ email_category = "Ads"

\* C30: parse_id_to_int(parse_int_to_id(n)) is n for every n of the integer
\* type, and parse_int_to_id(parse_id_to_int(s)) is s for every string s of
\* hexadecimal digits that parse_id_to_int accepts.
IdRoundTrips ==
  /\ (id_input.kind = "int" /\ id_output # NoId)
       => id_output = [kind |-> "int", n |-> id_input.n, s |-> <<>>]
  /\ (id_input.kind = "id" /\ id_output.kind = "id") => id_output.s = id_input.s

\* an id as parse_int_to_id writes it: lower case digits, no leading zero
\* unless the id is "0"
IsLowerNoLeadingZero(s) ==
  /\ s # <<>>
  /\ \A i \in 1..Len(s) : \E v \in 1..16 : s[i] = LowerDigits[v]
  /\ s[1] = "0" => Len(s) = 1

\* C30, amended: parse_id_to_int(parse_int_to_id(n)) is n for every n of the
\* integer type, and parse_int_to_id(parse_id_to_int(s)) is s for every s of
\* lower case hexadecimal digits without a leading zero that the type holds.
IdRoundTripsLowerNoLeadingZero ==
  /\ (id_input.kind = "int" /\ id_output # NoId)
       => id_output = [kind |-> "int", n |-> id_input.n, s |-> <<>>]
  /\ (id_input.kind = "id" /\ id_output # NoId /\ IsLowerNoLeadingZero(id_input.s)
        /\ digits_value(id_input.s) <= IdMax)
       => id_output = [kind |-> "id", n |-> 0, s |-> id_input.s]

\* a two digit id with a letter went through both conversions
WitnessIdRoundTripsLowerNoLeadingZero ==
  id_input.kind = "id" /\ id_input.s = <<"7", "a">> /\ id_output.s = <<"7", "a">>

\* C31: once a processed_email row exists for a msg_id no later push of that
\* msg_id succeeds, and the message is not sent to the classifier again.
NoPushOfProcessedMessage ==
  /\ [][\A id \in MsgIds :
          (processed_email[id] > 0 /\ PushStep(id)) => push_ret' # [email_id |-> 0, added |-> TRUE]]_vars
  /\ [][\A id \in DOMAIN prompt_sent :
          processed_email[id] > 0 => prompt_sent'[id] = prompt_sent[id]]_vars

\* the locks a thread holds
HoldsLock(t) ==
  {l \in {"queue", "counter", "set"} :
     \/ l = "queue" /\ queue_mutex = t
     \/ l = "counter" /\ (counter_rwlock.writer = t \/ t \in counter_rwlock.readers)
     \/ l = "set" /\ set_mutex = t}

\* the lock a thread is about to take
WantsLock(t) ==
  CASE lock_call[t].pc = "queue.lock" -> "queue"
    [] lock_call[t].pc \in {"write", "read"} -> "counter"
    [] lock_call[t].pc = "in_processing_set.lock" -> "set"
    [] OTHER -> "none"

LockRank(l) == CASE l = "queue" -> 1 [] l = "counter" -> 2 [] l = "set" -> 3 [] OTHER -> 4

\* the lock the thread is about to take is held in a way that excludes it
LockBlocked(t) ==
  \/ WantsLock(t) = "queue" /\ queue_mutex # 0
  \/ lock_call[t].pc = "write" /\ counter_rwlock # [writer |-> 0, readers |-> {}]
  \/ lock_call[t].pc = "read" /\ counter_rwlock.writer # 0
  \/ WantsLock(t) = "set" /\ set_mutex # 0

\* C32: the threads inside push, pop, remove_from_processing and the queries
\* never deadlock: a thread takes a lock only while it holds locks that come
\* before it in the order heap, counters, in-flight set; a thread outside the
\* methods holds no lock; and while some thread is inside a method, one of
\* them can take its next step.
NoLockDeadlock ==
  /\ \A t \in DOMAIN lock_call :
       /\ \A l \in HoldsLock(t) : LockRank(l) < LockRank(WantsLock(t))
       /\ lock_call[t] = NoLockCall => HoldsLock(t) = {}
  /\ (\E t \in DOMAIN lock_call : lock_call[t] # NoLockCall)
       => \E t \in DOMAIN lock_call : lock_call[t] # NoLockCall /\ ~LockBlocked(t)

\* a push that holds the heap and the counters waits for the in-flight set,
\* which another thread holds
WitnessNoLockDeadlock ==
  \E t, u \in DOMAIN lock_call :
    /\ HoldsLock(t) = {"queue", "counter"} /\ WantsLock(t) = "set"
    /\ HoldsLock(u) = {"set"} /\ lock_call[u].op = "remove_from_processing"

\* C33: once cancel() has returned the processor adds no entry to the prompt
\* priority queue.
NoPushAfterCancel ==
  [][cancelled => BagCardinality(queue') <= BagCardinality(queue)]_vars

\* C34: the back-off flag is cleared only when the timer of the most recent
\* trigger_backoff call has fired: at a step that clears the flag no timer is
\* left whose deadline is still ahead.
BackoffLastsUntilLatestTimer ==
  [][(backoff /\ ~backoff') => \A deadline \in BagToSet(timers') : deadline <= now]_vars

\* C35: the category of the email is the first entry of cfg.heuristics whose
\* content the sender contains exactly when the message has a from, some
\* entry matches and the category chosen after the confidence gate is none
\* of "Terms of Service Update", "Verification Code", "Security Alert";
\* otherwise it is the category chosen after the gate; and the ai_answer
\* stored, category_content, is the gated answer of the model.
HeuristicOverride ==
  category_content # "none" =>
    LET from == prompt_response.from
        gated == IF prompt_response.confidence < email_confidence_threshold
                   THEN "Unknown" ELSE prompt_response.category
        chosen == IF gated \in CfgCategoryContents THEN gated ELSE "Unknown"
        matching == {i \in DOMAIN CfgHeuristics : FromContains(from, CfgHeuristics[i])}
        override == /\ from # "none"
                    /\ matching # {}
                    /\ chosen \notin {"Terms of Service Update", "Verification Code",
                                       "Security Alert"}
    IN /\ category_content = gated
       /\ override =>
            \E i \in matching : /\ email_category = CfgHeuristics[i]
                                 /\ \A j \in matching : i <= j
       /\ ~override => email_category = chosen

\* a sender that two heuristics match was given the first of them, and the
\* answer of the model was stored
WitnessHeuristicOverride ==
  /\ prompt_response.from = "noreply@Amazon.com"
  /\ prompt_response.category = "Ads"
  /\ category_content = "Ads"
  /\ email_category = "Amazon"


\* the calls one setting's action asks for on one email
calls_of(action) ==
  CASE action = "Delete" -> [trash |-> 1, archive |-> 0]
    [] action = "Archive" -> [trash |-> 0, archive |-> 1]
    [] OTHER -> NoCalls

\* join_all has returned for a setting that had candidates
SettingJoined == cleanup_pc = "for setting" /\ emails_to_cleanup # <<>>

CleanupExactlyOnce ==
  /\ emails_to_cleanup # <<>> => \A id \in CleanupIds :
        /\ cleanup_calls[id] \in {NoCalls, calls_of(cleanup_setting)}
        /\ id \in keep_ids \/ id \notin SeqRange(emails_to_cleanup) => cleanup_calls[id] = NoCalls
        /\ Cardinality({t \in CleanupThreads : thread_email[t] = id}) <= 1
        /\ (\E t \in CleanupThreads : thread_email[t] = id) => cleanup_calls[id] = NoCalls
  /\ SettingJoined =>
        \A id \in SeqRange(emails_to_cleanup) \ keep_ids :
          cleanup_calls[id] = calls_of(cleanup_setting)
  /\ cleanup_pc = "join_all" =>
        \A t \in CleanupThreads : thread_pc[t] = "done" => cleanup_queue = <<>>

\* what the 5 tasks have left to do: two steps for a queued email, one for an
\* email a task holds, one for a task to find the queue empty
DrainMeasure ==
  2 * Len(cleanup_queue)
    + Cardinality({t \in CleanupThreads : thread_pc[t] = "match"})
    + Cardinality({t \in CleanupThreads : thread_pc[t] # "done"})

\* while join_all waits, a task that has not ended can take a step, and
\* join_all can return once all have ended
DrainNeverBlocks ==
  cleanup_pc = "join_all" =>
    /\ \A t \in CleanupThreads :
          thread_pc[t] # "done" => ENABLED (thread_next(t) \/ thread_match(t))
    /\ (\A t \in CleanupThreads : thread_pc[t] = "done") => ENABLED cleanup_join_all

CleanupReachesRemainingUsers ==
  cleanup_pc \in {"ok", "err"} => cleanup_todo = {}


\* the tasks of process_emails_in_queue have all found the queue empty and
\* ended, and a queue_new_emails task spawned by add_to_processing for this
\* processor has still to add what it fetched
FetchingAfterDrain(id) ==
  /\ StoredInMap(id)
  /\ proc[id].task = "process_emails_in_queue"
  /\ proc[id].idle = 0 /\ proc[id].busy = 0
  /\ proc[id].fetching

\* C38: when add_to_processing finds the user's processor in the map and its
\* workers have already drained the queue and ended, the ids that the
\* spawned queue_new_emails adds are eventually all taken from the queue for
\* processing, unless the quota is reached or the processor is cancelled
QueuedForActiveProcessorIsProcessed ==
  \A id \in ProcIds :
    FetchingAfterDrain(id)
      ~> \/ ~proc[id].fetching /\ proc[id].email_queue = 0
         \/ proc_is_quota_reached(proc[id])
         \/ proc_is_cancelled(proc[id])


InWaiting(q, e) == \E i \in 1..Len(q) : q[i] = e

PosInWaiting(q, e) == CHOOSE i \in 1..Len(q) : q[i] = e

ActiveUsers(m) == {e \in MapUsers : m[e] # 0}

\* C39: the map never holds more than max_size processors; a user is started
\* while the map is full only in a call that removes a processor, and a user
\* that enters the waiting queue does so with the map full and left as it is
ActiveProcessorsBounded ==
  /\ [](Cardinality(ActiveUsers(email_to_active_proc)) <= MaxSize)
  /\ [][\A e \in MapUsers :
          /\ (/\ Cardinality(ActiveUsers(email_to_active_proc)) >= MaxSize
              /\ e \notin ActiveUsers(email_to_active_proc)
              /\ e \in ActiveUsers(email_to_active_proc'))
               => \E other \in ActiveUsers(email_to_active_proc) :
                    other \notin ActiveUsers(email_to_active_proc')
          /\ (~InWaiting(waiting_queue, e) /\ InWaiting(waiting_queue', e))
               => /\ Cardinality(ActiveUsers(email_to_active_proc)) >= MaxSize
                  /\ email_to_active_proc' = email_to_active_proc
                  /\ e \notin ActiveUsers(email_to_active_proc)]_vars

WitnessActiveProcessorsBounded ==
  /\ Cardinality(ActiveUsers(email_to_active_proc)) = MaxSize
  /\ Len(waiting_queue) >= 1
  /\ next_proc > MaxSize + 1

\* C40: the waiting queue is first in, first out: the user that leaves it is
\* the one at its head, and the users that stay keep their order
WaitingAdmittedInArrivalOrder ==
  [][\A a, b \in MapUsers :
       (/\ InWaiting(waiting_queue, a) /\ InWaiting(waiting_queue, b)
        /\ PosInWaiting(waiting_queue, a) < PosInWaiting(waiting_queue, b))
         => /\ InWaiting(waiting_queue', a) /\ InWaiting(waiting_queue', b)
                 => PosInWaiting(waiting_queue', a) < PosInWaiting(waiting_queue', b)
            /\ InWaiting(waiting_queue', b) \/ ~InWaiting(waiting_queue', a)]_vars

====
